---- MODULE Spec2Model ----
(***************************************************************************)
(* The MCP server: the sandboxed filesystem access layer (path             *)
(* normalisation, the allowed-directory membership test, path validation,  *)
(* the filesystem tool handlers and the line-oriented file editor), the    *)
(* session map of the streamable HTTP endpoint, and the knowledge graph    *)
(* kept as JSON lines in the memory file.                                  *)
(*                                                                         *)
(* Strings are modelled as sequences of one-character strings, so that     *)
(* prefix tests, splitting on "/", substring search and JSON text are      *)
(* computed as the code computes them.                                     *)
(***************************************************************************)
EXTENDS Integers, Sequences, FiniteSets, TLC

VARIABLES
    allowedDirectories, \* filesystem-utils module state set by setAllowedDirectories
    fs,                 \* the filesystem: absolute path -> node
    call,               \* the last tool call: its arguments, result and filesystem trace;
                        \* for the HTTP endpoint the session map and the last exchange;
                        \* for overlapping calls each call's position and locals
    calls,              \* number of tool calls handled so far
    history,            \* the tool calls before the last one, most recent first
    arg,                \* input of the last pure-function application
    ret                 \* output of the last pure-function application

vars == <<allowedDirectories, fs, call, calls, history, arg, ret>>

(***************************************************************************)
(* Bounds                                                                  *)
(***************************************************************************)
MaxPathLen == 4      \* longest target path string of the membership-test inputs
MaxAllowed == 2      \* longest allowed-directory list of the membership-test inputs

(***************************************************************************)
(* Strings                                                                 *)
(***************************************************************************)
RECURSIVE SeqsUpTo(_, _)
SeqsUpTo(S, n) ==
    IF n = 0 THEN {<<>>}
    ELSE LET shorter == SeqsUpTo(S, n - 1)
         IN  shorter \cup {Append(s, c) : s \in {t \in shorter : Len(t) = n - 1}, c \in S}

\* `value` under a name in `Body`, as a const declaration binds it
With(value, Body(_)) == Body(value)

StartsWith(s, p) == Len(p) <= Len(s) /\ SubSeq(s, 1, Len(p)) = p

EndsWith(s, p) == Len(p) <= Len(s) /\ SubSeq(s, Len(s) - Len(p) + 1, Len(s)) = p

\* s.split(sep) for a one-character separator
RECURSIVE Split(_, _)
Split(s, sep) ==
    IF \A i \in 1..Len(s) : s[i] # sep THEN <<s>>
    ELSE LET i == CHOOSE k \in 1..Len(s) : s[k] = sep /\ \A j \in 1..(k - 1) : s[j] # sep
         IN  <<SubSeq(s, 1, i - 1)>> \o Split(SubSeq(s, i + 1, Len(s)), sep)

\* parts.join(sep)
RECURSIVE Join(_, _)
Join(parts, sep) ==
    IF parts = <<>> THEN <<>>
    ELSE IF Len(parts) = 1 THEN parts[1]
    ELSE parts[1] \o sep \o Join(Tail(parts), sep)

(***************************************************************************)
(* PathNormalizer (src/src/path-utils.ts) on a POSIX host                  *)
(***************************************************************************)
Cwd == <<"/", "d">>          \* process.cwd()
HomeDir == <<"/", "o">>      \* os.homedir()

isAbsolute(p) == p # <<>> /\ p[1] = "/"

\* node's path normalisation of the segments of an absolute path:
\* empty and "." segments are dropped, ".." removes the segment before it
RECURSIVE Collapse(_, _)
Collapse(segs, acc) ==
    IF segs = <<>> THEN acc
    ELSE LET h == Head(segs)
         IN  Collapse(Tail(segs),
                 IF h = <<>> \/ h = <<".">> THEN acc
                 ELSE IF h = <<".", ".">>
                      THEN (IF acc = <<>> THEN acc ELSE SubSeq(acc, 1, Len(acc) - 1))
                      ELSE Append(acc, h))

\* the segments of path.resolve(p)
Segments(p) ==
    Collapse(Split(IF isAbsolute(p) THEN p ELSE Cwd \o <<"/">> \o p, "/"), <<>>)

RECURSIVE JoinAbs(_)
JoinAbs(segs) ==
    IF segs = <<>> THEN <<>> ELSE <<"/">> \o Head(segs) \o JoinAbs(Tail(segs))

\* path.resolve(p)
resolve(p) == With(Segments(p), LAMBDA segs : IF segs = <<>> THEN <<"/">> ELSE JoinAbs(segs))

\* path.dirname of an absolute, resolved path
dirname(p) ==
    With(Segments(p), LAMBDA segs :
        IF Len(segs) <= 1 THEN <<"/">> ELSE JoinAbs(SubSeq(segs, 1, Len(segs) - 1)))

\* s.replace(/\\/g, '/')
ReplaceBackslashes(s) == [i \in 1..Len(s) |-> IF s[i] = "\\" THEN "/" ELSE s[i]]

normalizePath(filepath) == ReplaceBackslashes(resolve(filepath))

\* an expansion that takes every leading ~ for the home directory
expandHome_AnyTilde(filepath) ==
    IF StartsWith(filepath, <<"~">>)
    THEN resolve(HomeDir \o <<"/">> \o SubSeq(filepath, 2, Len(filepath)))
    ELSE filepath

\* path.join(os.homedir(), filepath.slice(1)): join normalises its result and keeps a
\* trailing separator
expandHome(filepath) ==
    IF StartsWith(filepath, <<"~", "/">>) \/ filepath = <<"~">>
    THEN With(resolve(HomeDir \o <<"/">> \o SubSeq(filepath, 2, Len(filepath))), LAMBDA joined :
             IF EndsWith(filepath, <<"/">>) /\ joined # <<"/">>
             THEN joined \o <<"/">> ELSE joined)
    ELSE filepath

(***************************************************************************)
(* Membership test (path-validation, src/testing/mock_data.js:82-100)      *)
(***************************************************************************)
WithSlash(s) == IF EndsWith(s, <<"/">>) THEN s ELSE s \o <<"/">>

\* the test of one allowed directory, the body of the for loop
WithinOne_Naive(normalizedTarget, allowedDir) ==
    StartsWith(normalizedTarget, normalizePath(allowedDir))

WithinOne(normalizedTarget, allowedDir) ==
    With(normalizePath(allowedDir), LAMBDA normalizedAllowed :
        \/ normalizedTarget = normalizedAllowed
        \/ StartsWith(WithSlash(normalizedTarget), WithSlash(normalizedAllowed)))

isPathWithinAllowedDirectories(targetPath, allowedDirs) ==
    LET normalizedTarget == normalizePath(targetPath)
    IN  \E i \in 1..Len(allowedDirs) : WithinOne(normalizedTarget, allowedDirs[i])

\* p is d or a descendant of d, segment by segment
Under(p, d) == StartsWith(Segments(p), Segments(d))

UnderSome(p, dirs) == \E i \in 1..Len(dirs) : Under(p, dirs[i])

(***************************************************************************)
(* The membership test as a pure function of bounded inputs                *)
(***************************************************************************)
PathChars == {"/", "d", "s", "."}
TargetPool == SeqsUpTo(PathChars, MaxPathLen)
AllowedPool == {<<"/", "d">>, <<"/", "d", "/">>, <<"/">>, <<"s">>}
AllowedLists == SeqsUpTo(AllowedPool, MaxAllowed)

NoFs == <<>>
NoCall == [tool |-> "none"]

Pending == [state |-> "pending"]
Done(v) == [state |-> "done", value |-> v]
RetDone == ret.state = "done"

InitWithin ==
    /\ allowedDirectories = <<>>
    /\ fs = NoFs
    /\ call = NoCall
    /\ calls = 0
    /\ history = <<>>
    /\ arg \in [fn : {"isPathWithinAllowedDirectories"},
                targetPath : TargetPool, allowedDirs : AllowedLists]
    /\ ret = Pending

ApplyWithin ==
    /\ arg.fn = "isPathWithinAllowedDirectories"
    /\ ret = Pending
    /\ ret' = Done(isPathWithinAllowedDirectories(arg.targetPath, arg.allowedDirs))
    /\ UNCHANGED <<allowedDirectories, fs, call, calls, history, arg>>

NextWithin == ApplyWithin

SpecWithin == InitWithin /\ [][NextWithin]_vars

IsWithinCall == arg.fn = "isPathWithinAllowedDirectories" /\ RetDone

\* C1: the membership test accepts a path only if the path is one of the allowed
\* directories or lies below one, segment by segment; a path that merely has an
\* allowed directory as a string prefix (/ds when /d is allowed) is rejected.
C1_PrefixCollisionRejected ==
    (IsWithinCall /\ ret.value) => UnderSome(arg.targetPath, arg.allowedDirs)

\* an allowed directory is a proper string prefix of the normalized target, the
\* target is below no allowed directory, and the test has rejected it
C1_Witness ==
    /\ IsWithinCall
    /\ ~ret.value
    /\ \E i \in 1..Len(arg.allowedDirs) :
          LET d == normalizePath(arg.allowedDirs[i])
              t == normalizePath(arg.targetPath)
          IN  StartsWith(t, d) /\ t # d /\ d # <<"/">>
    /\ ~UnderSome(arg.targetPath, arg.allowedDirs)

(***************************************************************************)
(* The filesystem: a function from absolute paths to nodes                 *)
(***************************************************************************)
MaxLinkDepth == 3    \* symbolic links followed in one resolution before ELOOP

Ok(v) == [ok |-> TRUE, value |-> v]
Err(e) == [ok |-> FALSE, error |-> e]

Root == <<"/">>
Dir == [kind |-> "dir"]
File(c) == [kind |-> "file", content |-> c]
Link(t) == [kind |-> "link", target |-> t]

Child(dir, name) == IF dir = Root THEN dir \o name ELSE dir \o <<"/">> \o name

basename(p) ==
    With(Segments(p), LAMBDA segs : IF segs = <<>> THEN <<>> ELSE segs[Len(segs)])

Exists(f, p) == p \in DOMAIN f

\* resolution of the remaining segments `rest` below the resolved directory `cur`
RECURSIVE ResolveFrom(_, _, _, _)
ResolveFrom(f, cur, rest, fuel) ==
    IF rest = <<>> THEN Ok(cur)
    ELSE IF f[cur].kind # "dir" THEN Err("ENOTDIR")
    ELSE LET next == Child(cur, Head(rest))
         IN  IF ~Exists(f, next) THEN Err("ENOENT")
             ELSE IF f[next].kind = "link"
                  THEN IF fuel = 0 THEN Err("ELOOP")
                       ELSE ResolveFrom(f, Root, Segments(f[next].target) \o Tail(rest), fuel - 1)
                  ELSE ResolveFrom(f, next, Tail(rest), fuel)

\* fs.realpath(p) of an absolute path: every symbolic link followed
realpath(f, p) == ResolveFrom(f, Root, Segments(p), MaxLinkDepth)

\* the node an open-for-write or mkdir of p creates or reaches: as realpath, but a
\* missing last component is created in its resolved parent, and a dangling link
\* in last position is followed to its target
RECURSIVE Locate(_, _, _)
Locate(f, p, fuel) ==
    With(realpath(f, p), LAMBDA r :
        IF r.ok \/ r.error # "ENOENT" \/ Segments(p) = <<>> THEN r
        ELSE With(realpath(f, dirname(p)), LAMBDA par :
            IF ~par.ok THEN par
            ELSE IF f[par.value].kind # "dir" THEN Err("ENOTDIR")
            ELSE With(Child(par.value, basename(p)), LAMBDA q :
                IF Exists(f, q) /\ f[q].kind = "link"
                THEN IF fuel = 0 THEN Err("ELOOP") ELSE Locate(f, f[q].target, fuel - 1)
                ELSE Ok(q))))

Children(f, d) == {q \in DOMAIN f : q # Root /\ dirname(q) = d}

Below(f, d) == {q \in DOMAIN f : q # d /\ Under(q, d)}

\* fs.readdir(p, {withFileTypes: true}): a directory entry reports the type of the
\* entry itself, a symbolic link is neither a file nor a directory
readdir(f, p) ==
    With(realpath(f, p), LAMBDA r :
        IF ~r.ok THEN r
        ELSE IF f[r.value].kind # "dir" THEN Err("ENOTDIR")
        ELSE Ok({[name |-> basename(q), kind |-> f[q].kind] : q \in Children(f, r.value)}))

\* fs.stat(p): follows symbolic links
stat(f, p) ==
    With(realpath(f, p), LAMBDA r :
        IF ~r.ok THEN r ELSE Ok([path |-> r.value, kind |-> f[r.value].kind]))

\* fs.readFile(p, "utf-8")
readFile(f, p) ==
    With(realpath(f, p), LAMBDA r :
        IF ~r.ok THEN r
        ELSE IF f[r.value].kind # "file" THEN Err("EISDIR")
        ELSE Ok(f[r.value].content))

Put(f, p, node) == [q \in DOMAIN f \cup {p} |-> IF q = p THEN node ELSE f[q]]

\* fs.writeFile(p, c): the filesystem after the write, or the error
writeFile(f, p, c) ==
    With(Locate(f, p, MaxLinkDepth), LAMBDA loc :
        IF ~loc.ok THEN loc
        ELSE IF Exists(f, loc.value) /\ f[loc.value].kind = "dir" THEN Err("EISDIR")
        ELSE Ok(Put(f, loc.value, File(c))))

\* fs.mkdir(p, {recursive: true}): missing components are created one by one; a
\* dangling symbolic link on the way is an existing entry that is no directory
RECURSIVE MkdirFrom(_, _, _)
MkdirFrom(f, cur, rest) ==
    IF rest = <<>> THEN Ok(f)
    ELSE With(realpath(f, Child(cur, Head(rest))), LAMBDA r :
             IF r.ok
             THEN IF f[r.value].kind = "dir" THEN MkdirFrom(f, r.value, Tail(rest))
                  ELSE Err(IF Tail(rest) = <<>> THEN "EEXIST" ELSE "ENOTDIR")
             ELSE IF r.error # "ENOENT" THEN r
             ELSE IF Exists(f, Child(cur, Head(rest))) THEN Err("EEXIST")
             ELSE MkdirFrom(Put(f, Child(cur, Head(rest)), Dir), Child(cur, Head(rest)),
                            Tail(rest)))

mkdir(f, p) == MkdirFrom(f, Root, Segments(p))

\* the path q below (or equal to) the entry a, re-rooted at b; a, b and q are resolved
\* paths and a is not the root
Rebase(q, a, b) == b \o SubSeq(q, Len(a) + 1, Len(q))

\* the filesystem with the entry src and all below it moved to dst
Moved(f, src, dst) ==
    With({src} \cup Below(f, src), LAMBDA moved :
        [q \in (DOMAIN f \ (moved \cup {dst})) \cup {Rebase(o, src, dst) : o \in moved} |->
            IF \E o \in moved : Rebase(o, src, dst) = q
            THEN f[CHOOSE o \in moved : Rebase(o, src, dst) = q]
            ELSE f[q]])

\* fs.rename(a, b) below the resolved parents: src and dst are the entries themselves,
\* neither last component is followed; an existing file or empty directory at dst is
\* replaced
RenameEntry(f, src, dst) ==
    IF ~Exists(f, src) THEN Err("ENOENT")
    ELSE IF f[dirname(dst)].kind # "dir" THEN Err("ENOTDIR")
    ELSE IF src = dst THEN Ok(f)
    ELSE IF f[src].kind = "dir" /\ Under(dst, src) THEN Err("EINVAL")
    ELSE IF Exists(f, dst) /\ f[dst].kind = "dir" /\ f[src].kind # "dir" THEN Err("EISDIR")
    ELSE IF Exists(f, dst) /\ f[dst].kind # "dir" /\ f[src].kind = "dir" THEN Err("ENOTDIR")
    ELSE IF Exists(f, dst) /\ f[dst].kind = "dir" /\ Children(f, dst) # {} THEN Err("ENOTEMPTY")
    ELSE Ok(Moved(f, src, dst))

\* fs.rename(a, b)
rename(f, a, b) ==
    With(realpath(f, dirname(a)), LAMBDA pa :
    With(realpath(f, dirname(b)), LAMBDA pb :
        IF ~pa.ok THEN pa
        ELSE IF ~pb.ok THEN pb
        ELSE IF a = Root \/ b = Root THEN Err("EBUSY")
        ELSE RenameEntry(f, Child(pa.value, basename(a)), Child(pb.value, basename(b)))))

(***************************************************************************)
(* Ordering of names, for directory listings                               *)
(***************************************************************************)
Alphabet == <<" ", "\n", "\r", ".", "/", "A", "B", "F", "a", "b", "d", "f", "k", "l", "m", "n", "o", "s", "x", "~">>

CharRank(c) == CHOOSE i \in 1..Len(Alphabet) : Alphabet[i] = c

\* a.localeCompare(b) < 0, as the order of the character codes
RECURSIVE NameLess(_, _)
NameLess(a, b) ==
    IF b = <<>> THEN FALSE
    ELSE IF a = <<>> THEN TRUE
    ELSE IF Head(a) = Head(b) THEN NameLess(Tail(a), Tail(b))
    ELSE CharRank(Head(a)) < CharRank(Head(b))

\* the comparators of list_directory_with_sizes (src/src/index.ts:547-558)
EntryLess(sortBy, a, b) ==
    IF sortBy = "size"
    THEN IF a.type # b.type THEN a.type = "directory"
         ELSE IF a.type = "directory" THEN NameLess(a.name, b.name)
         ELSE b.sizeBytes < a.sizeBytes
    ELSE NameLess(a.name, b.name)

\* the stable sort of Array.prototype.sort: each element is inserted after the
\* elements that are not greater than it
RECURSIVE InsertSorted(_, _, _)
InsertSorted(sorted, e, sortBy) ==
    IF sorted = <<>> THEN <<e>>
    ELSE IF EntryLess(sortBy, e, Head(sorted)) THEN <<e>> \o sorted
    ELSE <<Head(sorted)>> \o InsertSorted(Tail(sorted), e, sortBy)

RECURSIVE SortEntries(_, _)
SortEntries(seq, sortBy) ==
    IF seq = <<>> THEN <<>>
    ELSE InsertSorted(SortEntries(SubSeq(seq, 1, Len(seq) - 1), sortBy), seq[Len(seq)], sortBy)

\* the elements of a set of entries as a sequence, in the order of their names
RECURSIVE ByName(_)
ByName(S) ==
    IF S = {} THEN <<>>
    ELSE LET first == CHOOSE e \in S : \A o \in S \ {e} : NameLess(e.name, o.name)
         IN  <<first>> \o ByName(S \ {first})

\* seq.map(F)
Map(seq, F(_)) == [i \in 1..Len(seq) |-> F(seq[i])]

Range(seq) == {seq[i] : i \in 1..Len(seq)}

(***************************************************************************)
(* PathSandbox: validatePath of filesystem-utils                           *)
(***************************************************************************)
OutsideAllowedDirectories == "OutsideAllowedDirectories"
NotFound == "NotFound"

\* the nearest ancestor of p that resolves
RECURSIVE NearestExistingAncestor(_, _)
NearestExistingAncestor(f, p) ==
    With(dirname(p), LAMBDA d :
        IF d = Root \/ realpath(f, d).ok THEN d ELSE NearestExistingAncestor(f, d))

\* validate(candidatePath); `create` says that the caller creates at this path
\* (write, move destination, create directory)
validatePath(f, allowed, requestedPath, create) ==
    With(normalizePath(expandHome(requestedPath)), LAMBDA P :
    With(realpath(f, P), LAMBDA real :
        IF real.ok
        THEN IF isPathWithinAllowedDirectories(real.value, allowed)
             THEN Ok(real.value)
             ELSE Err(OutsideAllowedDirectories)
        ELSE IF real.error # "ENOENT" THEN real
        ELSE IF ~create THEN Err(NotFound)
        ELSE With(NearestExistingAncestor(f, P), LAMBDA ancestor :
             With(realpath(f, ancestor), LAMBDA realAnc :
                 IF ~realAnc.ok THEN Err(NotFound)
                 ELSE IF isPathWithinAllowedDirectories(realAnc.value, allowed)
                      THEN Ok(JoinAbs(Segments(realAnc.value)
                                      \o SubSeq(Segments(P), Len(Segments(ancestor)) + 1,
                                                Len(Segments(P)))))
                      ELSE Err(OutsideAllowedDirectories)))))

(***************************************************************************)
(* FileEditor: applyFileEdits of filesystem-utils                          *)
(***************************************************************************)
\* the index of the first occurrence of t in s, 0 when there is none
IndexOf(s, t) ==
    LET hits == {i \in 1..(Len(s) - Len(t) + 1) : SubSeq(s, i, i + Len(t) - 1) = t}
    IN  IF hits = {} THEN 0 ELSE CHOOSE i \in hits : \A j \in hits : i <= j

Includes(s, t) == IndexOf(s, t) > 0

RECURSIVE ReplaceAll(_, _, _)
ReplaceAll(s, t, u) ==
    With(IndexOf(s, t), LAMBDA i :
        IF i = 0 \/ t = <<>> THEN s
        ELSE SubSeq(s, 1, i - 1) \o u \o ReplaceAll(SubSeq(s, i + Len(t), Len(s)), t, u))

\* every occurrence replaced instead of the first
ReplaceFirst_All(s, t, u) == ReplaceAll(s, t, u)

\* s with its first occurrence of t replaced by u
ReplaceFirst(s, t, u) ==
    With(IndexOf(s, t), LAMBDA i : SubSeq(s, 1, i - 1) \o u \o SubSeq(s, i + Len(t), Len(s)))

CRLF == <<"\r", "\n">>
LF == <<"\n">>

normalizeLineEndings(text) == ReplaceAll(text, CRLF, LF)

restoreLineEndings(text, original) ==
    IF Includes(original, CRLF) THEN ReplaceAll(text, LF, CRLF) ELSE text

IsSpace(c) == c = " "

RECURSIVE TrimStart(_)
TrimStart(s) == IF s # <<>> /\ IsSpace(Head(s)) THEN TrimStart(Tail(s)) ELSE s

RECURSIVE TrimEnd(_)
TrimEnd(s) ==
    IF s # <<>> /\ IsSpace(s[Len(s)]) THEN TrimEnd(SubSeq(s, 1, Len(s) - 1)) ELSE s

Trim(s) == TrimEnd(TrimStart(s))

\* the leading whitespace of a line
Indent(line) == SubSeq(line, 1, Len(line) - Len(TrimStart(line)))

Lines(text) == Split(text, "\n")

\* the first window of content lines that equals the search lines after trimming
\* every line, 0 when there is none
WindowOf(contentLines, oldLines) ==
    LET n    == Len(oldLines)
        hits == {i \in 1..(Len(contentLines) - n + 1) :
                    \A j \in 1..n : Trim(oldLines[j]) = Trim(contentLines[i + j - 1])}
    IN  IF hits = {} THEN 0 ELSE CHOOSE i \in hits : \A k \in hits : i <= k

\* the replacement lines as the caller wrote them
Reindented_AsWritten(originalIndent, newLines) == newLines

\* the replacement lines, each with the indentation of the first matched line
Reindented(originalIndent, newLines) ==
    [j \in 1..Len(newLines) |-> originalIndent \o TrimStart(newLines[j])]

\* the whitespace-tolerant match of one edit, line by line
applyEditByLines(contentLines, oldLines, edit) ==
    With(WindowOf(contentLines, oldLines), LAMBDA i :
        IF i = 0 THEN Err([kind |-> "EditNotFound", oldText |-> edit.oldText])
        ELSE Ok(Join(SubSeq(contentLines, 1, i - 1)
                     \o Reindented(Indent(contentLines[i]), Lines(edit.newText))
                     \o SubSeq(contentLines, i + Len(oldLines), Len(contentLines)), LF)))

\* one edit against the working copy: the new working copy, or no match
applyEdit(content, edit) ==
    IF Includes(content, edit.oldText)
    THEN Ok(ReplaceFirst(content, edit.oldText, edit.newText))
    ELSE applyEditByLines(Lines(content), Lines(edit.oldText), edit)

\* an edit that matches nothing is skipped instead of failing the call
RECURSIVE applyEdits_SkipsUnmatched(_, _)
applyEdits_SkipsUnmatched(content, edits) ==
    IF edits = <<>> THEN Ok(content)
    ELSE With(applyEdit(content, Head(edits)), LAMBDA r :
             applyEdits_SkipsUnmatched(IF r.ok THEN r.value ELSE content, Tail(edits)))

\* the edits in list order, each against the result of the one before
RECURSIVE applyEdits(_, _)
applyEdits(content, edits) ==
    IF edits = <<>> THEN Ok(content)
    ELSE With(applyEdit(content, Head(edits)), LAMBDA r :
             IF ~r.ok THEN r ELSE applyEdits(r.value, Tail(edits)))

\* the number of leading lines two texts share
RECURSIVE CommonPrefix(_, _)
CommonPrefix(a, b) ==
    IF a = <<>> \/ b = <<>> \/ Head(a) # Head(b) THEN 0
    ELSE 1 + CommonPrefix(Tail(a), Tail(b))

Reverse(seq) == [i \in 1..Len(seq) |-> seq[Len(seq) + 1 - i]]

\* the hunk of two lists of lines that differ after their first `pre` lines
Hunk(pre, ra, rb) ==
    With(CommonPrefix(Reverse(ra), Reverse(rb)), LAMBDA suf :
        [start   |-> pre + 1,
         removed |-> SubSeq(ra, 1, Len(ra) - suf),
         added   |-> SubSeq(rb, 1, Len(rb) - suf)])

\* the unified diff of two texts as its list of hunks: the lines removed and the
\* lines added between the common leading and trailing lines
createUnifiedDiff(originalContent, newContent) ==
    IF originalContent = newContent THEN <<>>
    ELSE With(Lines(originalContent), LAMBDA a :
         With(Lines(newContent), LAMBDA b :
         With(CommonPrefix(a, b), LAMBDA pre :
             <<Hunk(pre, SubSeq(a, pre + 1, Len(a)), SubSeq(b, pre + 1, Len(b)))>>)))

\* applyFileEdits(filePath, edits, dryRun): the diff or the error, the filesystem
\* after the call and the filesystem operations performed
applyFileEdits(f, filePath, edits, dryRun) ==
    With(readFile(f, filePath), LAMBDA raw :
        IF ~raw.ok THEN [outcome |-> raw, fs |-> f, ops |-> <<[op |-> "read", path |-> filePath]>>]
        ELSE With(normalizeLineEndings(raw.value), LAMBDA content :
             With(applyEdits(content, edits), LAMBDA modified :
                 IF ~modified.ok
                 THEN [outcome |-> modified, fs |-> f,
                       ops |-> <<[op |-> "read", path |-> filePath]>>]
                 ELSE With(createUnifiedDiff(content, modified.value), LAMBDA diff :
                     IF dryRun
                     THEN [outcome |-> Ok(diff), fs |-> f,
                           ops |-> <<[op |-> "read", path |-> filePath]>>]
                     ELSE With(writeFile(f, filePath,
                                         restoreLineEndings(modified.value, raw.value)),
                               LAMBDA w :
                                   [outcome |-> IF w.ok THEN Ok(diff) ELSE w,
                                    fs      |-> IF w.ok THEN w.value ELSE f,
                                    ops     |-> <<[op |-> "read", path |-> filePath],
                                                  [op |-> "write", path |-> filePath]>>])))))

(***************************************************************************)
(* Reading helpers of filesystem-utils                                     *)
(***************************************************************************)
InvalidArgument == "InvalidArgument"

readFileContent(f, filePath) == readFile(f, filePath)

writeFileContent(f, filePath, content) == writeFile(f, filePath, content)

\* the first numLines lines of the file
headFile(f, filePath, numLines) ==
    IF numLines <= 0 THEN Err(InvalidArgument)
    ELSE With(readFile(f, filePath), LAMBDA r :
             IF ~r.ok THEN r
             ELSE LET ls == Lines(r.value)
                  IN  Ok(Join(SubSeq(ls, 1, IF numLines < Len(ls) THEN numLines ELSE Len(ls)),
                              LF)))

\* the last numLines lines of the file
tailFile(f, filePath, numLines) ==
    IF numLines <= 0 THEN Err(InvalidArgument)
    ELSE With(readFile(f, filePath), LAMBDA r :
             IF ~r.ok THEN r
             ELSE LET ls == Lines(r.value)
                  IN  Ok(Join(SubSeq(ls, IF numLines < Len(ls) THEN Len(ls) - numLines + 1
                                         ELSE 1, Len(ls)), LF)))

getFileStats(f, filePath) ==
    With(stat(f, filePath), LAMBDA r :
        IF ~r.ok THEN r
        ELSE Ok([size        |-> IF r.value.kind = "file" THEN Len(f[r.value.path].content) ELSE 0,
                 isDirectory |-> r.value.kind = "dir",
                 isFile      |-> r.value.kind = "file"]))

ToLower(c) == IF c = "A" THEN "a" ELSE IF c = "B" THEN "b" ELSE IF c = "F" THEN "f" ELSE c

toLowerCase(s) == [i \in 1..Len(s) |-> ToLower(s[i])]

(***************************************************************************)
(* FileScanner: searchFilesWithValidation of filesystem-utils              *)
(***************************************************************************)
Entries(f, dir) ==
    With(readdir(f, dir), LAMBDA rd :
        IF rd.ok THEN Map(ByName(rd.value), LAMBDA e : [path |-> Child(dir, e.name),
                                                         name |-> e.name, kind |-> e.kind])
        ELSE <<>>)

\* the name contains the pattern, case-insensitively
NameMatches(name, pattern) == Includes(toLowerCase(name), toLowerCase(pattern))

\* the walk, depth first: `todo` holds the entries still to visit, `acc` the matches,
\* the validations and the filesystem operations so far
RECURSIVE searchWalk(_, _, _, _, _, _)
searchWalk(f, allowed, todo, pattern, excludePatterns, acc) ==
    IF todo = <<>> THEN acc
    ELSE With(validatePath(f, allowed, Head(todo).path, FALSE), LAMBDA v :
         With([acc EXCEPT !.validations =
                  Append(@, [raw |-> Head(todo).path, create |-> FALSE, result |-> v])],
              LAMBDA seen :
         With(IF NameMatches(Head(todo).name, pattern)
              THEN [seen EXCEPT !.results = Append(@, Head(todo).path)] ELSE seen,
              LAMBDA reported :
             IF ~v.ok \/ \E i \in 1..Len(excludePatterns) :
                             NameMatches(Head(todo).name, excludePatterns[i])
             THEN searchWalk(f, allowed, Tail(todo), pattern, excludePatterns, seen)
             ELSE IF Head(todo).kind = "dir"
             THEN searchWalk(f, allowed, Entries(f, Head(todo).path) \o Tail(todo), pattern,
                             excludePatterns,
                             [reported EXCEPT !.ops =
                                 Append(@, [op |-> "readdir", path |-> Head(todo).path])])
             ELSE searchWalk(f, allowed, Tail(todo), pattern, excludePatterns, reported))))

searchFilesWithValidation(f, rootPath, pattern, allowed, excludePatterns) ==
    With(readdir(f, rootPath), LAMBDA rd :
        IF ~rd.ok THEN [outcome |-> rd, validations |-> <<>>,
                        ops |-> <<[op |-> "readdir", path |-> rootPath]>>]
        ELSE With(searchWalk(f, allowed, Entries(f, rootPath), pattern, excludePatterns,
                             [results |-> <<>>, validations |-> <<>>,
                              ops |-> <<[op |-> "readdir", path |-> rootPath]>>]),
                  LAMBDA w : [outcome |-> Ok(w.results), validations |-> w.validations,
                              ops |-> w.ops]))

(***************************************************************************)
(* The filesystem tool handlers (src/src/index.ts:513-631)                 *)
(* Each yields the validations made, the filesystem operations performed,  *)
(* the outcome (the returned value or the thrown error) and the filesystem *)
(* after the call.                                                         *)
(***************************************************************************)
Validation(raw, create, result) == [raw |-> raw, create |-> create, result |-> result]

Op(op, path) == [op |-> op, path |-> path]

Handled(validations, ops, outcome, f) ==
    [validations |-> validations, ops |-> ops, outcome |-> outcome, fs |-> f]

\* a handler whose validatePath threw: nothing else was done
Refused(path, create, v, f) == Handled(<<Validation(path, create, v)>>, <<>>, v, f)

\* a handler that performs one operation on its validated path; `done` is the
\* operation's result, `text` the success message
Performed(path, create, v, op, done, text, f) ==
    Handled(<<Validation(path, create, v)>>, <<Op(op, v.value)>>,
            IF done.ok THEN Ok(text) ELSE done,
            IF done.ok THEN done.value ELSE f)

EntryType(kind) == IF kind = "dir" THEN "directory" ELSE "file"

getAllowedDirectories(allowed) == allowed

list_allowed_directories(f, allowed) ==
    Handled(<<>>, <<>>, Ok(getAllowedDirectories(allowed)), f)

list_directory(f, allowed, path) ==
    With(validatePath(f, allowed, path, FALSE), LAMBDA v :
        IF ~v.ok THEN Refused(path, FALSE, v, f)
        ELSE With(readdir(f, v.value), LAMBDA entries :
            Handled(<<Validation(path, FALSE, v)>>, <<Op("readdir", v.value)>>,
                    IF ~entries.ok THEN entries
                    ELSE Ok(Map(ByName(entries.value),
                                LAMBDA e : [name |-> e.name, type |-> EntryType(e.kind)])),
                    f)))

\* the size of one entry: a stat of the entries that are regular files, 0 on error
EntrySize(f, validatedPath, entry) ==
    With(getFileStats(f, Child(validatedPath, entry.name)), LAMBDA stats :
        IF entry.kind = "file" /\ stats.ok THEN stats.value.size ELSE 0)

\* the entries of the listing with their sizes, in readdir's order
entriesWithSizes(f, validatedPath, listed) ==
    Map(listed, LAMBDA e : [name      |-> e.name,
                            type      |-> EntryType(e.kind),
                            isFile    |-> e.kind = "file",
                            sizeBytes |-> EntrySize(f, validatedPath, e)])

\* the entries as returned: sizeBytes removed, size present for files only
cleanedEntries(sorted) ==
    Map(sorted, LAMBDA e : [name   |-> e.name,
                            type   |-> e.type,
                            isFile |-> e.isFile,
                            size   |-> IF e.isFile THEN <<e.sizeBytes>> ELSE <<>>])

list_directory_with_sizes(f, allowed, path, sortBy) ==
    With(validatePath(f, allowed, path, FALSE), LAMBDA v :
        IF ~v.ok THEN Refused(path, FALSE, v, f)
        ELSE With(readdir(f, v.value), LAMBDA entries :
            IF ~entries.ok
            THEN Handled(<<Validation(path, FALSE, v)>>, <<Op("readdir", v.value)>>, entries, f)
            ELSE With(ByName(entries.value), LAMBDA listed :
                Handled(<<Validation(path, FALSE, v)>>,
                        <<Op("readdir", v.value)>>
                            \o Map(SelectSeq(listed, LAMBDA e : e.kind = "file"),
                                   LAMBDA e : Op("stat", Child(v.value, e.name))),
                        Ok(cleanedEntries(SortEntries(entriesWithSizes(f, v.value, listed),
                                                      IF sortBy = "size" THEN "size"
                                                      ELSE "name"))),
                        f))))

get_file_info(f, allowed, path) ==
    With(validatePath(f, allowed, path, FALSE), LAMBDA v :
        IF ~v.ok THEN Refused(path, FALSE, v, f)
        ELSE Handled(<<Validation(path, FALSE, v)>>, <<Op("stat", v.value)>>,
                     getFileStats(f, v.value), f))

\* an optional number: <<>> when the argument is absent, <<n>> when it is n
Truthy(opt) == opt # <<>> /\ opt[1] # 0

read_text_file(f, allowed, path, head, tail) ==
    With(validatePath(f, allowed, path, FALSE), LAMBDA v :
        IF ~v.ok THEN Refused(path, FALSE, v, f)
        ELSE Handled(<<Validation(path, FALSE, v)>>, <<Op("read", v.value)>>,
                     IF Truthy(head) THEN headFile(f, v.value, head[1])
                     ELSE IF Truthy(tail) THEN tailFile(f, v.value, tail[1])
                     ELSE readFileContent(f, v.value), f))

\* one slot of read_multiple_files: the body of the for loop with its try/catch
ReadOne(f, allowed, filePath) ==
    With(validatePath(f, allowed, filePath, FALSE), LAMBDA v :
        IF ~v.ok THEN [validation |-> Validation(filePath, FALSE, v),
                       ops        |-> <<>>,
                       slot       |-> [path |-> filePath, error |-> v.error]]
        ELSE With(readFileContent(f, v.value), LAMBDA content :
                 [validation |-> Validation(filePath, FALSE, v),
                  ops        |-> <<Op("read", v.value)>>,
                  slot       |-> IF ~content.ok
                                 THEN [path |-> filePath, error |-> content.error]
                                 ELSE [path |-> filePath, content |-> content.value]]))

RECURSIVE Flatten(_)
Flatten(seqs) == IF seqs = <<>> THEN <<>> ELSE Head(seqs) \o Flatten(Tail(seqs))

\* the first failure aborts the call instead of being caught in its slot
read_multiple_files_AbortsOnFirstError(f, allowed, paths) ==
    With(Map(paths, LAMBDA filePath : ReadOne(f, allowed, filePath)), LAMBDA each :
        IF \E i \in 1..Len(each) : "error" \in DOMAIN each[i].slot
        THEN Handled(Map(each, LAMBDA r : r.validation), Flatten(Map(each, LAMBDA r : r.ops)),
                     Err("aborted"), f)
        ELSE Handled(Map(each, LAMBDA r : r.validation),
                     Flatten(Map(each, LAMBDA r : r.ops)),
                     Ok(Map(each, LAMBDA r : r.slot)), f))

read_multiple_files(f, allowed, paths) ==
    With(Map(paths, LAMBDA filePath : ReadOne(f, allowed, filePath)), LAMBDA each :
        Handled(Map(each, LAMBDA r : r.validation),
                Flatten(Map(each, LAMBDA r : r.ops)),
                Ok(Map(each, LAMBDA r : r.slot)), f))

write_file(f, allowed, path, content) ==
    With(validatePath(f, allowed, path, TRUE), LAMBDA v :
        IF ~v.ok THEN Refused(path, TRUE, v, f)
        ELSE Performed(path, TRUE, v, "write", writeFileContent(f, v.value, content),
                       "Successfully wrote file", f))

\* the result of applyFileEdits as the handler's
Edited(path, v, e) == Handled(<<Validation(path, FALSE, v)>>, e.ops, e.outcome, e.fs)

\* the dryRun argument is dropped: every call writes
edit_file_IgnoresDryRun(f, allowed, path, edits, dryRun) ==
    With(validatePath(f, allowed, path, FALSE), LAMBDA v :
        IF ~v.ok THEN Refused(path, FALSE, v, f)
        ELSE Edited(path, v, applyFileEdits(f, v.value, edits, FALSE)))

\* dryRun defaults to true: no call writes
edit_file_AlwaysDryRun(f, allowed, path, edits, dryRun) ==
    With(validatePath(f, allowed, path, FALSE), LAMBDA v :
        IF ~v.ok THEN Refused(path, FALSE, v, f)
        ELSE Edited(path, v, applyFileEdits(f, v.value, edits, TRUE)))

edit_file(f, allowed, path, edits, dryRun) ==
    With(validatePath(f, allowed, path, FALSE), LAMBDA v :
        IF ~v.ok THEN Refused(path, FALSE, v, f)
        ELSE Edited(path, v, applyFileEdits(f, v.value, edits, dryRun)))

create_directory(f, allowed, path) ==
    With(validatePath(f, allowed, path, TRUE), LAMBDA v :
        IF ~v.ok THEN Refused(path, TRUE, v, f)
        ELSE Performed(path, TRUE, v, "mkdir", mkdir(f, v.value),
                       "Successfully created directory", f))

\* the rename of move_file and its result
Renamed(vals, from, to, r, f) ==
    Handled(vals, <<Op("rename", from), Op("rename", to)>>,
            IF r.ok THEN Ok("Successfully moved") ELSE r,
            IF r.ok THEN r.value ELSE f)

\* the destination is used as given, without validation
move_file_UncheckedDestination(f, allowed, source, destination) ==
    With(validatePath(f, allowed, source, FALSE), LAMBDA vs :
        IF ~vs.ok THEN Refused(source, FALSE, vs, f)
        ELSE With(normalizePath(destination), LAMBDA to :
                 Renamed(<<Validation(source, FALSE, vs)>>, vs.value, to,
                         rename(f, vs.value, to), f)))

move_file(f, allowed, source, destination) ==
    With(validatePath(f, allowed, source, FALSE), LAMBDA vs :
        IF ~vs.ok THEN Refused(source, FALSE, vs, f)
        ELSE With(validatePath(f, allowed, destination, TRUE), LAMBDA vd :
            IF ~vd.ok
            THEN Handled(<<Validation(source, FALSE, vs), Validation(destination, TRUE, vd)>>,
                         <<>>, vd, f)
            ELSE Renamed(<<Validation(source, FALSE, vs), Validation(destination, TRUE, vd)>>,
                         vs.value, vd.value, rename(f, vs.value, vd.value), f)))

search_files(f, allowed, path, pattern, excludePatterns) ==
    With(validatePath(f, allowed, path, FALSE), LAMBDA v :
        IF ~v.ok THEN Refused(path, FALSE, v, f)
        ELSE With(searchFilesWithValidation(f, v.value, pattern,
                                            getAllowedDirectories(allowed), excludePatterns),
                  LAMBDA r : Handled(<<Validation(path, FALSE, v)>> \o r.validations,
                                     r.ops, r.outcome, f)))

(***************************************************************************)
(* Startup (src/src/index.ts:968-982) and the server's tool calls          *)
(***************************************************************************)
MaxCalls == 2        \* tool calls in one run

ScriptDir == <<"/", "d", "/", "b">>    \* path.dirname(fileURLToPath(import.meta.url))

\* [...new Set(list)]: the first occurrence of every string is kept
RECURSIVE Dedup(_)
Dedup(list) ==
    IF list = <<>> THEN <<>>
    ELSE LET front == Dedup(SubSeq(list, 1, Len(list) - 1))
             last  == list[Len(list)]
         IN  IF last \in Range(front) THEN front ELSE Append(front, last)

defaultAllowedDirs == <<Cwd, ScriptDir>>

allowedDirs(userAllowedDirs) == Dedup(defaultAllowedDirs \o userAllowedDirs)

\* the directories the administrator may have configured in ALLOWED_DIRECTORIES
UserAllowedDirChoices == {<<>>, <<<<"/", "m">>>>}

\* the files the server finds at startup: the working directory /d with a file, the
\* build directory and a link l, a sibling /ds of the working directory, a directory
\* /o outside the sandbox with a file and a link k into the sandbox, and a link /m
\* to /o
LinkTargets == {<<"/", "o", "/", "f">>, <<"/", "o", "/", "n">>, <<"/", "d", "/", "f">>}

World(linkTarget) ==
    [q \in {Root, Cwd, ScriptDir, <<"/", "d", "/", "f">>, <<"/", "d", "/", "l">>,
            <<"/", "d", "s">>, <<"/", "o">>, <<"/", "o", "/", "f">>,
            <<"/", "o", "/", "k">>, <<"/", "m">>} |->
        IF q \in {Root, Cwd, ScriptDir, <<"/", "o">>} THEN Dir
        ELSE IF q = <<"/", "d", "/", "f">> THEN File(<<"a", "\n", "b">>)
        ELSE IF q = <<"/", "d", "s">> THEN File(<<"s">>)
        ELSE IF q = <<"/", "o", "/", "f">> THEN File(<<"s">>)
        ELSE IF q = <<"/", "d", "/", "l">> THEN Link(linkTarget)
        ELSE IF q = <<"/", "o", "/", "k">> THEN Link(<<"/", "d", "/", "f">>)
        ELSE Link(<<"/", "o">>)]

\* the arguments the clients send
PathPool == {<<"/", "d">>, <<"/", "d", "/", "f">>, <<"/", "d", "/", "l">>,
             <<"/", "d", "/", "n">>, <<"/", "d", "s">>, <<"/", "o", "/", "k">>,
             <<"/", "o", "/", "n">>, <<"/", "m", "/", "f">>,
             <<"/", "d", "/", ".", ".", "/", "o", "/", "f">>}
DestinationPool == {<<"/", "d", "/", "n">>, <<"/", "d", "/", "l">>}
ContentPool == {<<"b">>}
CountPool == {[head |-> <<>>, tail |-> <<>>], [head |-> <<1>>, tail |-> <<>>],
              [head |-> <<0>>, tail |-> <<1>>]}
PathListPool == {<<>>, <<<<"/", "d", "/", "f">>, <<"/", "o", "/", "f">>>>,
                 <<<<"/", "d", "s">>, <<"/", "d", "/", "f">>>>}
EditListPool == {<<[oldText |-> <<"a">>, newText |-> <<"A">>]>>,
                 <<[oldText |-> <<"a">>, newText |-> <<"A">>],
                   [oldText |-> <<"x">>, newText |-> <<"b">>]>>}
PatternPool == {<<"F">>}
ExcludePool == {<<>>, <<<<"l">>>>}

Init ==
    /\ \E user \in UserAllowedDirChoices : allowedDirectories = allowedDirs(user)
    /\ \E t \in LinkTargets : fs = World(t)
    /\ call = NoCall
    /\ calls = 0
    /\ history = <<>>
    /\ arg = [fn |-> "none"]
    /\ ret = Pending

\* the CallToolRequestSchema handler for one tool call
\* a dispatcher that registers every created directory as an allowed directory
Handle_RegistersCreatedDirectory(tool, args, h) ==
    /\ calls < MaxCalls
    /\ calls' = calls + 1
    /\ call' = [tool |-> tool, args |-> args, before |-> fs,
                validations |-> h.validations, ops |-> h.ops, outcome |-> h.outcome]
    /\ fs' = h.fs
    /\ allowedDirectories' = IF tool = "create_directory" /\ h.outcome.ok
                             THEN Append(allowedDirectories, args.path)
                             ELSE allowedDirectories
    /\ UNCHANGED <<history, arg, ret>>

Handle(tool, args, h) ==
    /\ calls < MaxCalls
    /\ calls' = calls + 1
    /\ call' = [tool |-> tool, args |-> args, before |-> fs,
                validations |-> h.validations, ops |-> h.ops, outcome |-> h.outcome]
    /\ fs' = h.fs
    /\ UNCHANGED <<allowedDirectories, history, arg, ret>>

ListAllowedDirectories ==
    Handle("list_allowed_directories", <<>>, list_allowed_directories(fs, allowedDirectories))

ListDirectory ==
    \E p \in PathPool :
        Handle("list_directory", [path |-> p], list_directory(fs, allowedDirectories, p))

ListDirectoryWithSizes ==
    \E p \in PathPool, sortBy \in {"name", "size"} :
        Handle("list_directory_with_sizes", [path |-> p, sortBy |-> sortBy],
               list_directory_with_sizes(fs, allowedDirectories, p, sortBy))

GetFileInfo ==
    \E p \in PathPool :
        Handle("get_file_info", [path |-> p], get_file_info(fs, allowedDirectories, p))

ReadTextFile ==
    \E p \in PathPool, n \in CountPool :
        Handle("read_text_file", [path |-> p, head |-> n.head, tail |-> n.tail],
               read_text_file(fs, allowedDirectories, p, n.head, n.tail))

ReadMultipleFiles ==
    \E ps \in PathListPool :
        Handle("read_multiple_files", [paths |-> ps],
               read_multiple_files(fs, allowedDirectories, ps))

WriteFile ==
    \E p \in PathPool, c \in ContentPool :
        Handle("write_file", [path |-> p, content |-> c],
               write_file(fs, allowedDirectories, p, c))

EditFile ==
    \E p \in PathPool, edits \in EditListPool, dryRun \in BOOLEAN :
        Handle("edit_file", [path |-> p, edits |-> edits, dryRun |-> dryRun],
               edit_file(fs, allowedDirectories, p, edits, dryRun))

CreateDirectory ==
    \E p \in PathPool :
        Handle("create_directory", [path |-> p], create_directory(fs, allowedDirectories, p))

MoveFile ==
    \E src \in PathPool, dst \in DestinationPool :
        Handle("move_file", [source |-> src, destination |-> dst],
               move_file(fs, allowedDirectories, src, dst))

SearchFiles ==
    \E p \in PathPool, pattern \in PatternPool, ex \in ExcludePool :
        Handle("search_files", [path |-> p, pattern |-> pattern, excludePatterns |-> ex],
               search_files(fs, allowedDirectories, p, pattern, ex))

Next ==
    \/ ListAllowedDirectories
    \/ ListDirectory
    \/ ListDirectoryWithSizes
    \/ GetFileInfo
    \/ ReadTextFile
    \/ ReadMultipleFiles
    \/ WriteFile
    \/ EditFile
    \/ CreateDirectory
    \/ MoveFile
    \/ SearchFiles

Spec == Init /\ [][Next]_vars

TypeOK == calls \in Nat

(***************************************************************************)
(* Properties of the sandbox                                               *)
(***************************************************************************)
IsToolCall == call.tool # "none"

Validations == IF IsToolCall THEN Range(call.validations) ELSE {}

Ops == IF IsToolCall THEN Range(call.ops) ELSE {}

\* where an operation on p lands in filesystem f: every link followed, the target
\* of a dangling link included
RealLocation(f, p) ==
    LET loc == Locate(f, p, MaxLinkDepth) IN IF loc.ok THEN loc.value ELSE p

\* the path as the sandbox reads it, before any link is followed
Lexical(raw) == normalizePath(expandHome(raw))

\* C2: no path accepted by validatePath has its real location outside every allowed
\* directory; a link inside an allowed directory that points outside is refused.
C2_NoSymlinkEscape ==
    \A v \in Validations :
        v.result.ok => UnderSome(RealLocation(call.before, v.result.value), allowedDirectories)

\* C3: a path whose normalized form lies outside every allowed directory is refused
\* with OutsideAllowedDirectories.
C3_OutsideIsRefused ==
    \A v \in Validations :
        ~UnderSome(Lexical(v.raw), allowedDirectories)
            => v.result = Err(OutsideAllowedDirectories)

\* the raw path is allowed directory D followed by a relative suffix that names an
\* existing entry, none of the suffix's components being a link or ".."
PlainEntryBelow(f, raw, D) ==
    LET n    == Len(Segments(D))
        segs == Split(raw, "/")
        real == realpath(f, raw)
        base == realpath(f, D)
    IN  /\ StartsWith(raw, D \o <<"/">>)
        /\ \A i \in 1..Len(segs) : segs[i] \notin {<<".">>, <<".", ".">>}
        /\ real.ok /\ base.ok
        /\ Segments(real.value)
             = Segments(base.value) \o SubSeq(Segments(raw), n + 1, Len(Segments(raw)))

\* C4: validatePath of an existing entry below an allowed directory D succeeds and
\* returns a path that has D as a prefix, also when D is registered through a link.
C4_InsideIsAccepted ==
    \A v \in Validations : \A i \in 1..Len(allowedDirectories) :
        PlainEntryBelow(call.before, v.raw, allowedDirectories[i])
            => v.result.ok /\ StartsWith(v.result.value, allowedDirectories[i])

GuardedOps == {"read", "readdir", "write", "mkdir", "rename"}

MaxEditCalls == 3    \* tool calls in one run of the editor

EditPath == <<"/", "d", "/", "f">>

EditorWorld(content) ==
    [q \in {Root, Cwd, ScriptDir, EditPath} |-> IF q = EditPath THEN File(content) ELSE Dir]

InitialContentPool == {<<" ", "a", "\n", " ", " ", "b">>, <<"a", "b", "a">>}
WriteContentPool == {<<"a", "\n", "b", "\n">>, <<"a", "\r", "\n", "b">>}

Edit(old, new) == [oldText |-> old, newText |-> new]

EditorEditPool ==
    {<<>>,
     <<Edit(<<"a">>, <<"A">>)>>,
     <<Edit(<<"a">>, <<"A">>), Edit(<<"A">>, <<"b">>)>>,
     <<Edit(<<"a">>, <<"A">>), Edit(<<"x">>, <<"b">>)>>,
     <<Edit(<<"a">>, <<"a">>)>>,
     <<Edit(<<"a", "\n", " ", "b">>, <<"a", "\n", " ", "b">>)>>,
     <<Edit(<<"a", "\n", "b">>, <<"A", "\n", " ", "b">>)>>}

InitEdit ==
    /\ allowedDirectories = allowedDirs(<<>>)
    /\ \E c \in InitialContentPool : fs = EditorWorld(c)
    /\ call = NoCall
    /\ calls = 0
    /\ history = <<>>
    /\ arg = [fn |-> "none"]
    /\ ret = Pending

HandleEdit(tool, args, h) ==
    /\ calls < MaxEditCalls
    /\ calls' = calls + 1
    /\ call' = [tool |-> tool, args |-> args, before |-> fs,
                validations |-> h.validations, ops |-> h.ops, outcome |-> h.outcome]
    /\ history' = IF call = NoCall THEN <<>>
                   ELSE IF history = <<>> THEN <<call>> ELSE <<call, history[1]>>
    /\ fs' = h.fs
    /\ UNCHANGED <<allowedDirectories, arg, ret>>

WriteContent ==
    \E c \in WriteContentPool :
        HandleEdit("write_file", [path |-> EditPath, content |-> c],
                   write_file(fs, allowedDirectories, EditPath, c))

ApplyEdits ==
    \E edits \in EditorEditPool, dryRun \in BOOLEAN :
        HandleEdit("edit_file", [path |-> EditPath, edits |-> edits, dryRun |-> dryRun],
                   edit_file(fs, allowedDirectories, EditPath, edits, dryRun))

ReadBack ==
    HandleEdit("read_text_file", [path |-> EditPath, head |-> <<>>, tail |-> <<>>],
               read_text_file(fs, allowedDirectories, EditPath, <<>>, <<>>))

NextEdit == WriteContent \/ ApplyEdits \/ ReadBack

SpecEdit == InitEdit /\ [][NextEdit]_vars

(***************************************************************************)
(* Properties of the editor                                                *)
(***************************************************************************)
IsEditCall == IsToolCall /\ call.tool = "edit_file" /\ call.validations[1].result.ok

EditedPath == call.validations[1].result.value

ContentAt(f, p) == f[realpath(f, p).value].content

\* the texts obtained from c by replacing one occurrence of old that no occurrence
\* precedes
FirstOccurrenceReplaced(c, old, new) ==
    {SubSeq(c, 1, i - 1) \o new \o SubSeq(c, i + Len(old), Len(c)) :
        i \in {k \in 1..(Len(c) - Len(old) + 1) :
                  /\ \A j \in 1..Len(old) : c[k + j - 1] = old[j]
                  /\ \A e \in 1..(k - 1) : \E j \in 1..Len(old) : c[e + j - 1] # old[j]}}

\* no line window of c equals the lines of old after trimming
NoWindow(c, old) ==
    LET cl == Lines(c)
        ol == Lines(old)
    IN  \A i \in 1..(Len(cl) - Len(ol) + 1) :
            \E j \in 1..Len(ol) : Trim(ol[j]) # Trim(cl[i + j - 1])

Unmatched(c, e) == FirstOccurrenceReplaced(c, e.oldText, e.newText) = {} /\ NoWindow(c, e.oldText)

NoMatch == Err("unmatched")

\* the working copy after the edits, the last edit applied to the result of the
\* edits before it; NoMatch when one of them matches nothing
RECURSIVE Expected(_, _)
Expected(c, edits) ==
    IF edits = <<>> THEN Ok(c)
    ELSE LET front == Expected(c, SubSeq(edits, 1, Len(edits) - 1))
             e     == edits[Len(edits)]
         IN  IF ~front.ok THEN front
             ELSE IF Unmatched(front.value, e) THEN NoMatch
             ELSE IF FirstOccurrenceReplaced(front.value, e.oldText, e.newText) # {}
                  THEN Ok(CHOOSE r \in FirstOccurrenceReplaced(front.value, e.oldText, e.newText) : TRUE)
                  ELSE applyEdit(front.value, e)

\* the content the editor leaves in a file that held `original`
ExpectedOnDisk(original, edits) ==
    LET final == Expected(normalizeLineEndings(original), edits)
    IN  IF ~final.ok THEN final ELSE Ok(restoreLineEndings(final.value, original))

AllMatch(original, edits) == ExpectedOnDisk(original, edits).ok

\* C6: a dry run never changes the filesystem, whether its edits match or not; a
\* real run with all edits matching leaves the final content in the file.
C6_DryRunWritesNothing ==
    IsEditCall =>
        /\ call.args.dryRun => fs = call.before
        /\ (~call.args.dryRun /\ AllMatch(ContentAt(call.before, EditedPath), call.args.edits))
               => /\ call.outcome.ok
                  /\ Ok(ContentAt(fs, EditedPath))
                       = ExpectedOnDisk(ContentAt(call.before, EditedPath), call.args.edits)

\* a dry run whose edits matched and whose diff has a hunk
C6_Witness ==
    /\ IsEditCall
    /\ call.args.dryRun
    /\ call.outcome.ok
    /\ call.outcome.value # <<>>
    /\ fs = call.before

\* the first edit of the list that matches nothing in the working copy the edits
\* before it have produced, 0 when every edit matches
FirstUnmatched(c, edits) ==
    LET bad == {k \in 1..Len(edits) :
                   /\ Expected(c, SubSeq(edits, 1, k - 1)).ok
                   /\ Unmatched(Expected(c, SubSeq(edits, 1, k - 1)).value, edits[k])}
    IN  IF bad = {} THEN 0 ELSE CHOOSE k \in bad : TRUE

\* C7: when an edit matches neither way the call fails with EditNotFound naming that
\* edit, and nothing is written, whatever the edits before it did to the working copy.
C7_UnmatchedEditWritesNothing ==
    IsEditCall =>
        LET k == FirstUnmatched(normalizeLineEndings(ContentAt(call.before, EditedPath)),
                                call.args.edits)
        IN  k # 0 =>
              /\ call.outcome = Err([kind |-> "EditNotFound",
                                     oldText |-> call.args.edits[k].oldText])
              /\ fs = call.before
              /\ \A o \in Ops : o.op # "write"

\* a real run whose first edit matched and whose second edit did not
C7_Witness ==
    /\ IsEditCall
    /\ ~call.args.dryRun
    /\ Len(call.args.edits) = 2
    /\ FirstUnmatched(normalizeLineEndings(ContentAt(call.before, EditedPath)),
                      call.args.edits) = 2
    /\ ~call.outcome.ok
    /\ fs = call.before

\* C8: the edits are applied in list order, each to the result of the one before,
\* and an exact match replaces the first occurrence only.
C8_SequentialFirstOccurrence ==
    (IsEditCall /\ ~call.args.dryRun /\ call.outcome.ok) =>
        LET original == ContentAt(call.before, EditedPath)
            working(k) == Expected(normalizeLineEndings(original),
                                   SubSeq(call.args.edits, 1, k)).value
        IN  /\ \A k \in 1..Len(call.args.edits) :
                  LET e == call.args.edits[k]
                  IN  \/ working(k) \in FirstOccurrenceReplaced(working(k - 1), e.oldText, e.newText)
                      \/ /\ FirstOccurrenceReplaced(working(k - 1), e.oldText, e.newText) = {}
                         /\ ~NoWindow(working(k - 1), e.oldText)
            /\ ContentAt(fs, EditedPath)
                 = restoreLineEndings(working(Len(call.args.edits)), original)

\* a real run of two edits on a text with two occurrences of the first search text,
\* the second edit matching only the text the first one introduced
C8_Witness ==
    /\ IsEditCall
    /\ ~call.args.dryRun
    /\ call.outcome.ok
    /\ Len(call.args.edits) = 2
    /\ ContentAt(call.before, EditedPath) = <<"a", "b", "a">>
    /\ ~Includes(ContentAt(call.before, EditedPath), call.args.edits[2].oldText)
    /\ ContentAt(fs, EditedPath) = <<"b", "b", "a">>

IsWrite(c) == c.tool = "write_file" /\ c.outcome.ok

IsRealEdit(c) == c.tool = "edit_file" /\ c.outcome.ok /\ ~c.args.dryRun

\* C9: a read that follows a successful write of C and a successful real edit E of
\* the same file returns C with E applied.
C9_WriteEditRead ==
    (/\ IsToolCall
     /\ call.tool = "read_text_file"
     /\ Len(history) = 2
     /\ IsRealEdit(history[1])
     /\ IsWrite(history[2]))
        => call.outcome = ExpectedOnDisk(history[2].args.content, history[1].args.edits)

\* the read of a file written as two lines and edited in its first line
C9_Witness ==
    /\ IsToolCall
    /\ call.tool = "read_text_file"
    /\ Len(history) = 2
    /\ IsRealEdit(history[1])
    /\ IsWrite(history[2])
    /\ history[2].args.content = <<"a", "\n", "b", "\n">>
    /\ history[1].args.edits = <<Edit(<<"a">>, <<"A">>)>>
    /\ call.outcome = Ok(<<"A", "\n", "b", "\n">>)

\* C10: an edit list whose every operation has its search text as its replacement,
\* the empty list included, leaves the file as it was and yields a diff without hunks.
C10_IdentityEditsChangeNothing ==
    (/\ IsEditCall
     /\ call.outcome.ok
     /\ \A i \in 1..Len(call.args.edits) : call.args.edits[i].oldText = call.args.edits[i].newText)
        => fs = call.before /\ call.outcome.value = <<>>

(***************************************************************************)
(* Properties of the multi-path read                                       *)
(***************************************************************************)
IsReadMultiple == IsToolCall /\ call.tool = "read_multiple_files"

\* what reading the one path p yields in filesystem f: its content or its error
SlotOf(f, p) ==
    LET v == validatePath(f, allowedDirectories, p, FALSE)
        c == readFile(f, v.value)
    IN  IF ~v.ok THEN [path |-> p, error |-> v.error]
        ELSE IF ~c.ok THEN [path |-> p, error |-> c.error]
        ELSE [path |-> p, content |-> c.value]

\* C11: read_multiple_files returns one slot per input path, in input order, each
\* slot holding what reading that path alone yields (its content or its error); a
\* failure on one path neither aborts the call nor changes another path's slot.
C11_ReadMultipleIsolatesFailures ==
    IsReadMultiple
        => /\ call.outcome.ok
           /\ Len(call.outcome.value) = Len(call.args.paths)
           /\ \A i \in 1..Len(call.args.paths) :
                 call.outcome.value[i] = SlotOf(call.before, call.args.paths[i])
           /\ fs = call.before

\* a call in which a path that fails comes before a path that is read
C11_Witness ==
    /\ IsReadMultiple
    /\ call.outcome.ok
    /\ \E i, j \in 1..Len(call.args.paths) :
          /\ i < j
          /\ "error" \in DOMAIN call.outcome.value[i]
          /\ "content" \in DOMAIN call.outcome.value[j]

(***************************************************************************)
(* Properties of move_file                                                 *)
(***************************************************************************)
\* a move_file call whose two paths were both accepted
IsValidatedMove ==
    /\ IsToolCall
    /\ call.tool = "move_file"
    /\ Len(call.validations) = 2
    /\ call.validations[1].result.ok
    /\ call.validations[2].result.ok

\* C12: a move_file whose destination already exists fails and leaves the filesystem,
\* the source and the existing destination included, as it was (whatever the kind of
\* the error: the claim names InvalidArgument, any failure is accepted here).
C12_MoveNeverOverwrites ==
    (IsValidatedMove /\ Exists(call.before, call.validations[2].result.value))
        => ~call.outcome.ok /\ fs = call.before


(***************************************************************************)
(* Properties of read_text_file                                            *)
(***************************************************************************)
IsReadText == IsToolCall /\ call.tool = "read_text_file"

\* an optional count that is given and is zero or negative
NonPositive(opt) == opt # <<>> /\ opt[1] <= 0

\* C13: a read_text_file call with a head or tail count that is zero or negative
\* fails and returns no file content (whatever the kind of the error: the claim
\* names InvalidArgument, any failure is accepted here).
C13_NonPositiveCountFails ==
    (IsReadText /\ (NonPositive(call.args.head) \/ NonPositive(call.args.tail)))
        => ~call.outcome.ok


(***************************************************************************)
(* Properties of the allowed-directory list                                *)
(***************************************************************************)
IsListAllowed == IsToolCall /\ call.tool = "list_allowed_directories"

\* C14: no tool call changes the allowed-directory list, and list_allowed_directories
\* returns that list, in its order, whatever calls came before it.
C14_AllowedDirectoriesFixed ==
    [][/\ allowedDirectories' = allowedDirectories
       /\ call'.tool = "list_allowed_directories"
              => call'.outcome = Ok(allowedDirectories)]_vars

\* list_allowed_directories answered after a call that changed the filesystem
C14_Witness ==
    /\ IsListAllowed
    /\ calls = 2
    /\ Len(call.outcome.value) = 3
    /\ \A t \in LinkTargets : call.before # World(t)


(***************************************************************************)
(* Startup configuration (src/src/index.ts:46-74, 968-982)                 *)
(***************************************************************************)
MaxEntries == 2

\* process.env.ALLOWED_DIRECTORIES when the variable is not set
Undefined == <<"undefined">>

JsonSpace(c) == c \in {" ", "\n", "\r", "\t"}

Digit(c) == c \in {"0", "1", "2", "3", "4", "5", "6", "7", "8", "9"}

\* the first position at or after i that holds no JSON whitespace
RECURSIVE SkipSpace(_, _)
SkipSpace(s, i) == IF i <= Len(s) /\ JsonSpace(s[i]) THEN SkipSpace(s, i + 1) ELSE i

\* the position of the quote that closes a string whose text starts at i, 0 when
\* there is none (escape sequences are not drawn)
RECURSIVE ScanString(_, _)
ScanString(s, i) ==
    IF i > Len(s) \/ s[i] = "\\" THEN 0
    ELSE IF s[i] = "\"" THEN i
    ELSE ScanString(s, i + 1)

\* the first position at or after i that holds no digit
RECURSIVE ScanDigits(_, _)
ScanDigits(s, i) == IF i <= Len(s) /\ Digit(s[i]) THEN ScanDigits(s, i + 1) ELSE i

NotArray == [array |-> FALSE]
Array(items) == [array |-> TRUE, items |-> items]

\* the elements of a JSON array from position i on, each as String(element) gives
\* it; the elements are strings and unsigned integers
RECURSIVE ParseItems(_, _, _)
RECURSIVE AfterItem(_, _, _)
ParseItems(s, i, acc) ==
    IF i > Len(s) THEN NotArray
    ELSE IF s[i] = "\""
         THEN With(ScanString(s, i + 1), LAMBDA j :
                  IF j = 0 THEN NotArray
                  ELSE AfterItem(s, SkipSpace(s, j + 1), Append(acc, SubSeq(s, i + 1, j - 1))))
    ELSE IF Digit(s[i])
         THEN With(ScanDigits(s, i), LAMBDA j :
                  IF s[i] = "0" /\ j > i + 1 THEN NotArray
                  ELSE AfterItem(s, SkipSpace(s, j), Append(acc, SubSeq(s, i, j - 1))))
    ELSE NotArray

AfterItem(s, i, acc) ==
    IF i > Len(s) THEN NotArray
    ELSE IF s[i] = "," THEN ParseItems(s, SkipSpace(s, i + 1), acc)
    ELSE IF s[i] = "]" /\ SkipSpace(s, i + 1) > Len(s) THEN Array(acc)
    ELSE NotArray

\* JSON.parse(envVar) with Array.isArray of its value: the array's elements, or
\* NotArray when the text is no JSON or is JSON of another kind
JSONParseArray(s) ==
    With(SkipSpace(s, 1), LAMBDA i :
        IF i > Len(s) \/ s[i] # "[" THEN NotArray
        ELSE With(SkipSpace(s, i + 1), LAMBDA j :
                 IF j <= Len(s) /\ s[j] = "]"
                 THEN (IF SkipSpace(s, j + 1) > Len(s) THEN Array(<<>>) ELSE NotArray)
                 ELSE ParseItems(s, j, <<>>)))

\* path.isAbsolute(dir) ? dir : path.resolve(dir)
ResolveRelative(dir) == IF isAbsolute(dir) THEN dir ELSE resolve(dir)

\* seq.filter(s => s.length > 0)
RECURSIVE NonEmptyOnly(_)
NonEmptyOnly(seq) ==
    IF seq = <<>> THEN <<>>
    ELSE (IF Len(Head(seq)) > 0 THEN <<Head(seq)>> ELSE <<>>) \o NonEmptyOnly(Tail(seq))

\* a parser that knows the comma-separated form only
parseAllowedDirectories_CommaOnly(envVar) ==
    IF envVar = Undefined \/ envVar = <<>> THEN <<>>
    ELSE Map(NonEmptyOnly(Map(Split(envVar, ","), Trim)), ResolveRelative)

parseAllowedDirectories(envVar) ==
    IF envVar = Undefined \/ envVar = <<>> THEN <<>>
    ELSE With(JSONParseArray(envVar), LAMBDA parsed :
             IF parsed.array THEN Map(parsed.items, ResolveRelative)
             ELSE Map(NonEmptyOnly(Map(Split(envVar, ","), Trim)), ResolveRelative))

\* JSON.stringify of a list of strings that hold no quote and no backslash
JsonForm(entries) ==
    <<"[">> \o Join(Map(entries, LAMBDA e : <<"\"">> \o e \o <<"\"">>), <<",">>) \o <<"]">>

\* the entries joined by commas
CommaForm(entries) == Join(entries, <<",">>)

\* the directories an administrator may configure
EntryPool ==
    {<<"/", "d">>, <<"/", "d", "/">>, <<"/", "m", "/", ".", ".", "/", "d">>,
     <<"/", "m">>, <<"x">>, <<"[", "]">>}

EntryLists == SeqsUpTo(EntryPool, MaxEntries)

\* values of ALLOWED_DIRECTORIES that are neither form of a list of entries
RawPool ==
    {Undefined, <<" ", "/", "m", " ", ",", "x">>, <<"/", "m", ",", ",", "x">>,
     <<"[", "1", ",", " ", "\"", "x", "\"", "]">>, <<"[", "\"", "x", "\"", ",", "]">>}

InitStartup ==
    /\ allowedDirectories = <<>>
    /\ fs = NoFs
    /\ call = NoCall
    /\ calls = 0
    /\ history = <<>>
    /\ \/ \E es \in EntryLists, form \in {"json", "comma"} :
             arg = [fn |-> "parseAllowedDirectories", form |-> form, entries |-> es,
                    envVar |-> IF form = "json" THEN JsonForm(es) ELSE CommaForm(es)]
       \/ \E raw \in RawPool :
             arg = [fn |-> "parseAllowedDirectories", form |-> "raw", entries |-> <<>>,
                    envVar |-> raw]
    /\ ret = Pending

\* const userAllowedDirs = parseAllowedDirectories(process.env.ALLOWED_DIRECTORIES)
ParseAllowedDirectories ==
    /\ arg.fn = "parseAllowedDirectories"
    /\ ret = Pending
    /\ ret' = Done(parseAllowedDirectories(arg.envVar))
    /\ UNCHANGED <<allowedDirectories, fs, call, calls, history, arg>>

\* setAllowedDirectories(allowedDirs)
SetAllowedDirectories ==
    /\ arg.fn = "parseAllowedDirectories"
    /\ RetDone
    /\ calls = 0
    /\ calls' = 1
    /\ allowedDirectories' = allowedDirs(ret.value)
    /\ UNCHANGED <<fs, call, history, arg, ret>>

NextStartup == ParseAllowedDirectories \/ SetAllowedDirectories

SpecStartup == InitStartup /\ [][NextStartup]_vars

Registered == arg.fn = "parseAllowedDirectories" /\ calls = 1

IsParsed == arg.fn = "parseAllowedDirectories" /\ RetDone

\* one absolute path per entry, in input order: an absolute entry as written, a
\* relative entry (the ones drawn have no . or .. segment) below the working directory
AbsoluteEntries(entries) ==
    [i \in 1..Len(entries) |->
        IF isAbsolute(entries[i]) THEN entries[i] ELSE Cwd \o <<"/">> \o entries[i]]

\* C16 as stated: for every list of non-empty entries without commas or surrounding
\* whitespace, the JSON-array form and the comma-separated form both yield one
\* absolute path per entry, in input order.
C16_BothFormsYieldTheEntries ==
    (IsParsed /\ arg.form \in {"json", "comma"}) => ret.value = AbsoluteEntries(arg.entries)

\* C16 amended: the JSON-array form always yields one absolute path per entry, in
\* input order; the comma-separated form yields the same list unless the
\* comma-separated text is itself a JSON array (a single entry [] or [1]), which is
\* then read as JSON; an unset or empty value yields the empty list; every path
\* returned is absolute.
C16_FormsAgreeUnlessCommaFormIsJson ==
    IsParsed =>
        /\ arg.form = "json" => ret.value = AbsoluteEntries(arg.entries)
        /\ (arg.form = "comma" /\ ~JSONParseArray(arg.envVar).array)
               => ret.value = AbsoluteEntries(arg.entries)
        /\ arg.envVar \in {Undefined, <<>>} => ret.value = <<>>
        /\ \A i \in 1..Len(ret.value) : isAbsolute(ret.value[i])

\* two entries, one of them relative, given as a JSON array
C16_Witness ==
    /\ IsParsed
    /\ arg.form = "json"
    /\ arg.entries = <<<<"x">>, <<"/", "m">>>>
    /\ ret.value = <<<<"/", "d", "/", "x">>, <<"/", "m">>>>


(***************************************************************************)
(* FileScanner, entry by entry: the walk of searchFilesWithValidation with *)
(* the filesystem changing between its I/O calls                           *)
(***************************************************************************)
MaxPlants == 2       \* symbolic links created by others during one walk
MaxWalkSteps == 40   \* I/O steps of one walk

\* what the walk did with an entry, and where the entry really was at that time
Event(op, path, f) == [op |-> op, path |-> path, real |-> realpath(f, path)]

Excluded(name, excludePatterns) ==
    \E i \in 1..Len(excludePatterns) : NameMatches(name, excludePatterns[i])

\* a walk that trusts what the directory listing said
visitValidation_Trusting(f, allowed, path) == Ok(path)

\* step 1 of the walk: the entry's path goes through the sandbox again
visitValidation(f, allowed, path) == validatePath(f, allowed, path, FALSE)

\* the walk before its first read
NewWalk == [tool |-> "search_files", phase |-> "start", todo |-> <<>>, results |-> <<>>,
            events |-> <<>>]

\* the read of the root, which the handler has validated
startWalk(f, rootPath, w) ==
    With(readdir(f, rootPath), LAMBDA rd :
        IF ~rd.ok THEN [w EXCEPT !.phase = "failed", !.events = Append(@, Event("failed", rootPath, f))]
        ELSE [w EXCEPT !.phase = "visit", !.todo = Entries(f, rootPath),
                       !.events = Append(@, Event("readdir", rootPath, f))])

\* a walk that gives up at the first entry it may not visit
visitEntry_AbortsOnFailure(f, allowed, w, pattern, excludePatterns) ==
    With(Head(w.todo), LAMBDA e :
    With(visitValidation(f, allowed, e.path), LAMBDA v :
        IF ~v.ok
        THEN [w EXCEPT !.phase = "failed", !.events = Append(@, Event("failed", e.path, f))]
        ELSE IF Excluded(e.name, excludePatterns)
        THEN [w EXCEPT !.todo = Tail(@), !.events = Append(@, Event("skip", e.path, f))]
        ELSE [w EXCEPT !.results = IF NameMatches(e.name, pattern) THEN Append(@, e.path) ELSE @,
                       !.phase = IF e.kind = "dir" THEN "descend" ELSE "visit",
                       !.todo = IF e.kind = "dir" THEN @ ELSE Tail(@),
                       !.events = Append(@, Event(IF NameMatches(e.name, pattern)
                                                  THEN "report" ELSE "pass", e.path, f))]))

\* the visit of the next entry: validate it, skip it when it fails or is excluded,
\* report it when its name matches, and go on into it when it is a directory
visitEntry(f, allowed, w, pattern, excludePatterns) ==
    With(Head(w.todo), LAMBDA e :
    With(visitValidation(f, allowed, e.path), LAMBDA v :
        IF ~v.ok \/ Excluded(e.name, excludePatterns)
        THEN [w EXCEPT !.todo = Tail(@), !.events = Append(@, Event("skip", e.path, f))]
        ELSE [w EXCEPT !.results = IF NameMatches(e.name, pattern) THEN Append(@, e.path) ELSE @,
                       !.phase = IF e.kind = "dir" THEN "descend" ELSE "visit",
                       !.todo = IF e.kind = "dir" THEN @ ELSE Tail(@),
                       !.events = Append(@, Event(IF NameMatches(e.name, pattern)
                                                  THEN "report" ELSE "pass", e.path, f))]))

\* the read of the directory just visited; a directory that cannot be read has no
\* entries
descendEntry(f, w) ==
    With(Head(w.todo), LAMBDA e :
        [w EXCEPT !.phase = "visit", !.todo = Entries(f, e.path) \o Tail(@),
                  !.events = Append(@, Event("readdir", e.path, f))])

\* the tree searched: the allowed directory /d with a link a to the directory /o
\* outside, a directory b holding a file f, a file f and a dangling link k
ScanWorld ==
    [q \in {Root, Cwd, ScriptDir, <<"/", "d", "/", "a">>, <<"/", "d", "/", "b", "/", "f">>,
            <<"/", "d", "/", "f">>, <<"/", "d", "/", "k">>, <<"/", "o">>,
            <<"/", "o", "/", "f">>} |->
        IF q \in {Root, Cwd, ScriptDir, <<"/", "o">>} THEN Dir
        ELSE IF q = <<"/", "d", "/", "a">> THEN Link(<<"/", "o">>)
        ELSE IF q = <<"/", "d", "/", "k">> THEN Link(<<"/", "o", "/", "n">>)
        ELSE File(<<"s">>)]

ScanRootPool == {Cwd, ScriptDir, <<"/", "d", "/", "f">>}
ScanExcludePool == {<<>>, <<<<"b">>>>}

\* where another process creates a link while the walk runs, and to what
PlantPool == {<<"/", "d", "/", "f", "l">>, <<"/", "d", "/", "b", "/", "f", "l">>}
PlantTargetPool == {<<"/", "o">>, <<"/", "o", "/", "f">>}

InitScan ==
    /\ allowedDirectories = <<Cwd>>
    /\ fs = ScanWorld
    /\ call = NewWalk
    /\ calls = 0
    /\ history = <<>>
    /\ \E root \in ScanRootPool, ex \in ScanExcludePool :
           arg = [fn |-> "searchFilesWithValidation", rootPath |-> root,
                  pattern |-> <<"F">>, excludePatterns |-> ex]
    /\ ret = Pending

IsScan == arg.fn = "searchFilesWithValidation"

\* the walk takes one more step; `calls` counts the steps of the walk
WalkTurn ==
    /\ IsScan /\ ret = Pending
    /\ calls < MaxWalkSteps
    /\ calls' = calls + 1

StartWalk ==
    /\ WalkTurn
    /\ call.phase = "start"
    /\ call' = startWalk(fs, arg.rootPath, call)
    /\ UNCHANGED <<allowedDirectories, fs, history, arg, ret>>

VisitEntry ==
    /\ WalkTurn
    /\ call.phase = "visit"
    /\ call.todo # <<>>
    /\ call' = visitEntry(fs, allowedDirectories, call, arg.pattern, arg.excludePatterns)
    /\ UNCHANGED <<allowedDirectories, fs, history, arg, ret>>

DescendEntry ==
    /\ WalkTurn
    /\ call.phase = "descend"
    /\ call' = descendEntry(fs, call)
    /\ UNCHANGED <<allowedDirectories, fs, history, arg, ret>>

FinishWalk ==
    /\ WalkTurn
    /\ \/ call.phase = "visit" /\ call.todo = <<>>
       \/ call.phase = "failed"
    /\ ret' = Done(IF call.phase = "failed" THEN Err("failed") ELSE Ok(call.results))
    /\ UNCHANGED <<allowedDirectories, fs, call, history, arg>>

\* another process creates a symbolic link inside the tree that points outside
PlantLink ==
    /\ IsScan /\ ret = Pending
    /\ Cardinality({p \in PlantPool : Exists(fs, p)}) < MaxPlants
    /\ \E p \in PlantPool, t \in PlantTargetPool :
           /\ ~Exists(fs, p)
           /\ Exists(fs, dirname(p))
           /\ fs[dirname(p)].kind = "dir"
           /\ fs' = Put(fs, p, Link(t))
    /\ UNCHANGED <<allowedDirectories, call, calls, history, arg, ret>>

WalkStep == StartWalk \/ VisitEntry \/ DescendEntry \/ FinishWalk

NextScan == WalkStep \/ PlantLink

SpecScan == InitScan /\ [][NextScan]_vars

\* the walk runs on: its I/O calls complete. Until the walk has finished one of
\* its steps is enabled, and the steps of the walk are the steps that count in
\* `calls`, so this is weak fairness of WalkStep
SpecScanFair == SpecScan /\ WF_calls(WalkTurn)

ScanEvents == IF IsScan THEN Range(call.events) ELSE {}

\* C17: every entry the walk reports, and every directory it reads, is really inside
\* an allowed directory at the time the walk does so, also when links to the outside
\* are created in the tree while the walk runs.
C17_WalkStaysInside ==
    \A e \in ScanEvents :
        e.op \in {"report", "readdir"}
            => e.real.ok /\ UnderSome(e.real.value, allowedDirectories)

\* a link created during the walk was met and skipped, and the walk read a directory
\* after that
C17_Witness ==
    /\ IsScan
    /\ \E i, j \in 1..Len(call.events) :
           /\ i < j
           /\ call.events[i].op = "skip"
           /\ call.events[i].path \in PlantPool
           /\ call.events[j].op \in {"report", "readdir"}


\* an entry the walk may visit: it passes the sandbox and its name is not excluded
Visitable(f, p) ==
    /\ validatePath(f, allowedDirectories, p, FALSE).ok
    /\ ~Excluded(basename(p), arg.excludePatterns)

\* the matches of all readable entries: the entries below the root whose name
\* matches, that may be visited, and that lie in visitable directories only
ExpectedMatches(f) ==
    {p \in Below(f, arg.rootPath) :
        /\ NameMatches(basename(p), arg.pattern)
        /\ Visitable(f, p)
        /\ \A q \in Below(f, arg.rootPath) :
               (q # p /\ Under(p, q)) => (Visitable(f, q) /\ f[q].kind = "dir")}

\* C18: the search of a readable root ends, and it ends with exactly the matches of
\* all readable entries, each once: entries that fail validation (links to the
\* outside, dangling links, links created during the walk) take nothing away from
\* their siblings.
C18_WalkIsBestEffort ==
    <>(/\ IsScan
       /\ RetDone
       /\ readdir(fs, arg.rootPath).ok =>
              /\ ret.value.ok
              /\ Range(ret.value.value) = ExpectedMatches(fs)
              /\ Len(ret.value.value) = Cardinality(ExpectedMatches(fs)))

\* the search is over, and an entry was reported after an entry that failed
C18_Witness ==
    /\ IsScan
    /\ RetDone
    /\ ret.value.ok
    /\ \E i, j \in 1..Len(call.events) :
           /\ i < j
           /\ call.events[i].op = "skip"
           /\ ~validatePath(fs, allowedDirectories, call.events[i].path, FALSE).ok
           /\ call.events[j].op = "report"


(***************************************************************************)
(* PathNormalizer as pure functions of bounded inputs                      *)
(***************************************************************************)
HomeChars == {"~", "/", "a", "."}
NormalizeChars == {"/", ".", "a", "\\"}

\* the paths given to expandHome; a/~/b is longer than the bound and added by hand
HomeInputPool == SeqsUpTo(HomeChars, MaxPathLen) \cup {<<"a", "/", "~", "/", "a">>}

NormalizeInputPool == SeqsUpTo(NormalizeChars, MaxPathLen)

InitPaths ==
    /\ allowedDirectories = <<>>
    /\ fs = NoFs
    /\ call = NoCall
    /\ calls = 0
    /\ history = <<>>
    /\ \/ \E p \in HomeInputPool : arg = [fn |-> "expandHome", filepath |-> p]
       \/ \E p \in NormalizeInputPool : arg = [fn |-> "normalizePath", filepath |-> p]
    /\ ret = Pending

ApplyExpandHome ==
    /\ arg.fn = "expandHome"
    /\ ret = Pending
    /\ ret' = Done(expandHome(arg.filepath))
    /\ UNCHANGED <<allowedDirectories, fs, call, calls, history, arg>>

ApplyNormalizePath ==
    /\ arg.fn = "normalizePath"
    /\ ret = Pending
    /\ ret' = Done(normalizePath(arg.filepath))
    /\ UNCHANGED <<allowedDirectories, fs, call, calls, history, arg>>

\* normalizePath applied to its own result; the first result is kept in history
NormalizeAgain ==
    /\ arg.fn = "normalizePath"
    /\ RetDone
    /\ history = <<>>
    /\ history' = <<ret.value>>
    /\ ret' = Done(normalizePath(ret.value))
    /\ UNCHANGED <<allowedDirectories, fs, call, calls, arg>>

NextPaths == ApplyExpandHome \/ ApplyNormalizePath \/ NormalizeAgain

SpecPaths == InitPaths /\ [][NextPaths]_vars

IsExpanded == arg.fn = "expandHome" /\ RetDone

\* the input is ~ or starts with ~/
HasHomeShorthand(p) == p = <<"~">> \/ StartsWith(p, <<"~", "/">>)

\* no . and no doubled separator: nothing for path.join to collapse
IsPlain(p) ==
    /\ \A i \in 1..Len(p) : p[i] # "."
    /\ \A i \in 1..(Len(p) - 1) : ~(p[i] = "/" /\ p[i + 1] = "/")

\* C19: expandHome puts the home directory in the place of the leading ~ exactly
\* when the input is ~ or starts with ~/ (the result names the home directory followed
\* by the rest, and is that very string when the rest has nothing to collapse); every
\* other input, ~user/x, a/~/b and the empty string included, is returned unchanged.
C19_ExpandHomeOnlyForShorthand ==
    IsExpanded =>
        IF HasHomeShorthand(arg.filepath)
        THEN /\ isAbsolute(ret.value)
             /\ Segments(ret.value) = Segments(HomeDir \o Tail(arg.filepath))
             /\ IsPlain(arg.filepath) => ret.value = HomeDir \o Tail(arg.filepath)
        ELSE ret.value = arg.filepath

\* ~/a has become the file a of the home directory
C19_Witness ==
    /\ IsExpanded
    /\ arg.filepath = <<"~", "/", "a">>
    /\ ret.value = <<"/", "o", "/", "a">>


IsNormalized == arg.fn = "normalizePath" /\ RetDone

\* the segments of a path as written: the pieces between its separators
WrittenSegments(p) == Split(SubSeq(p, 2, Len(p)), "/")

\* C20: the result of normalizePath is absolute, holds no backslash, no empty
\* segment (no doubled or trailing separator, the root apart), no . and no ..
\* segment, and normalizePath applied to it returns it unchanged.
C20_NormalizeIsNormalForm ==
    IsNormalized =>
        /\ isAbsolute(ret.value)
        /\ \A i \in 1..Len(ret.value) : ret.value[i] # "\\"
        /\ ret.value # Root =>
               \A i \in 1..Len(WrittenSegments(ret.value)) :
                   WrittenSegments(ret.value)[i] \notin {<<>>, <<".">>, <<".", ".">>}
        /\ history # <<>> => ret.value = history[1]

(***************************************************************************)
(* The HTTP endpoint /mcp and its session map                              *)
(*                                                                         *)
(* `call` holds the process's session state: the object `transports`, the  *)
(* transports constructed so far and the number of servers built by        *)
(* getServer().  `arg` is the last request and `ret` its response.         *)
(***************************************************************************)
MaxSessions == 2     \* transports constructed in one run

\* req.headers['mcp-session-id'] of a request that carries no such header; the
\* handlers test the header by truthiness, which treats "" and undefined alike
NoSessionId == ""

\* values of randomUUID()
UUIDPool == {"u1", "u2", "u3"}

\* names every plain object inherits from Object.prototype
ObjectPrototypeKeys == {"constructor", "__proto__"}

\* the session ids a client may send
SessionIdPool == {NoSessionId, "x"} \cup UUIDPool \cup ObjectPrototypeKeys

NoTransports == [id \in {} |-> 0]

\* new StreamableHTTPServerTransport({...}): no session id yet
NewTransport == [sessionId |-> NoSessionId, initialized |-> FALSE, closed |-> FALSE]

HttpState(ts, created, servers) == [transports |-> ts, created |-> created, servers |-> servers]

transports == call.transports

created == call.created

servers == call.servers

\* status 0: the handler threw and no response was written
Response(status, code, sessionId, transport) ==
    [status |-> status, code |-> code, sessionId |-> sessionId, transport |-> transport]

Outcome(state, response) == [state |-> state, response |-> response]

\* isInitializeRequest(req.body)
isInitializeRequest(body) == body = "initialize"

\* transports[sessionId] is truthy: an own entry, or a member inherited from
\* Object.prototype
HasEntry(ts, sessionId) == sessionId \in DOMAIN ts \/ sessionId \in ObjectPrototypeKeys

\* the session ids generated so far
Issued(s) == {s.created[i].sessionId : i \in 1..Len(s.created)} \ {NoSessionId}

\* a callback that registers nothing
onsessioninitialized_Forgets(ts, newSessionId, i) == ts

\* onsessioninitialized: transports[newSessionId] = transport
onsessioninitialized(ts, newSessionId, i) ==
    [id \in DOMAIN ts \cup {newSessionId} |-> IF id = newSessionId THEN i ELSE ts[id]]

\* a close handler that leaves the map alone
onclose_KeepsEntry(ts, transport) == ts

\* transport.onclose: if (transport.sessionId) delete transports[transport.sessionId]
onclose(ts, transport) ==
    IF transport.sessionId # NoSessionId
    THEN [id \in DOMAIN ts \ {transport.sessionId} |-> ts[id]]
    ELSE ts

\* transport.handleRequest(req, res, body) of transport i, by the transport's
\* contract: an initialize request gives a fresh transport its session id and
\* calls onsessioninitialized, a second one is refused; DELETE closes the
\* transport, which calls onclose; a request the transport cannot accept
\* (headers, protocol version, malformed body) is answered 406 and changes nothing
handleRequest(s, i, req) ==
    IF ~req.acceptable THEN {Outcome(s, Response(406, -32000, s.created[i].sessionId, i))}
    ELSE IF req.method = "POST" /\ isInitializeRequest(req.body)
    THEN IF s.created[i].initialized
         THEN {Outcome(s, Response(400, -32600, s.created[i].sessionId, i))}
         ELSE {Outcome(HttpState(onsessioninitialized(s.transports, id, i),
                                 [s.created EXCEPT ![i] = [sessionId |-> id, initialized |-> TRUE,
                                                           closed |-> FALSE]],
                                 s.servers),
                       Response(200, 0, id, i)) : id \in UUIDPool \ Issued(s)}
    ELSE IF req.method = "DELETE"
    THEN {Outcome(HttpState(onclose(s.transports, s.created[i]),
                            [s.created EXCEPT ![i].closed = TRUE], s.servers),
                  Response(200, 0, s.created[i].sessionId, i))}
    ELSE {Outcome(s, Response(200, 0, s.created[i].sessionId, i))}

\* calling handleRequest on a value that is no transport throws a TypeError out
\* of the async handler: the framework answers 500 or the request gets no answer
NotATransport(s) == {Outcome(s, Response(status, 0, NoSessionId, 0)) : status \in {500, 0}}

\* app.post('/mcp', ...)
post(s, req) ==
    IF req.sessionId # NoSessionId /\ HasEntry(s.transports, req.sessionId)
    THEN IF req.sessionId \in DOMAIN s.transports
         THEN handleRequest(s, s.transports[req.sessionId], req)
         ELSE NotATransport(s)
    ELSE IF req.sessionId = NoSessionId /\ isInitializeRequest(req.body)
    THEN handleRequest(HttpState(s.transports, Append(s.created, NewTransport), s.servers + 1),
                       Len(s.created) + 1, req)
    ELSE {Outcome(s, Response(400, -32000, NoSessionId, 0))}

\* handleSessionRequest, for GET and DELETE
handleSessionRequest(s, req) ==
    IF req.sessionId = NoSessionId \/ ~HasEntry(s.transports, req.sessionId)
    THEN {Outcome(s, Response(400, 0, NoSessionId, 0))}
    ELSE IF req.sessionId \in DOMAIN s.transports
         THEN handleRequest(s, s.transports[req.sessionId], req)
         ELSE NotATransport(s)

Request(method, sessionId, body, acceptable) ==
    [method |-> method, sessionId |-> sessionId, body |-> body, acceptable |-> acceptable]

BodyPool == {"initialize", "tools/call"}

InitSession ==
    /\ allowedDirectories = <<>>
    /\ fs = NoFs
    /\ call = HttpState(NoTransports, <<>>, 0)
    /\ calls = 0
    /\ history = <<>>
    /\ arg = Request("none", NoSessionId, "none", FALSE)
    /\ ret = Pending

IsHttp == "transports" \in DOMAIN call

Respond(req, outcomes) ==
    \E o \in outcomes :
        /\ call' = o.state
        /\ arg' = req
        /\ ret' = Done(o.response)
        /\ UNCHANGED <<allowedDirectories, fs, calls, history>>

Post ==
    /\ IsHttp
    /\ \E sessionId \in SessionIdPool, body \in BodyPool, acceptable \in BOOLEAN :
           /\ (sessionId = NoSessionId /\ isInitializeRequest(body)) => Len(created) < MaxSessions
           /\ Respond(Request("POST", sessionId, body, acceptable),
                      post(call, Request("POST", sessionId, body, acceptable)))

Get ==
    /\ IsHttp
    /\ \E sessionId \in SessionIdPool, acceptable \in BOOLEAN :
           Respond(Request("GET", sessionId, "none", acceptable),
                   handleSessionRequest(call, Request("GET", sessionId, "none", acceptable)))

Delete ==
    /\ IsHttp
    /\ \E sessionId \in SessionIdPool, acceptable \in BOOLEAN :
           Respond(Request("DELETE", sessionId, "none", acceptable),
                   handleSessionRequest(call, Request("DELETE", sessionId, "none", acceptable)))

NextSession == Post \/ Get \/ Delete

SpecSession == InitSession /\ [][NextSession]_vars

\* the response of the request handled last
Answered == IsHttp /\ RetDone

Str(s) == [t |-> "string", v |-> s]
Num(digits) == [t |-> "number", v |-> digits]
Arr(items) == [t |-> "array", v |-> items]
Obj(props) == [t |-> "object", v |-> props]
JsUndefined == [t |-> "undefined", v |-> <<>>]

\* obj[key]
Prop(obj, key) ==
    IF obj.t = "object" /\ \E i \in 1..Len(obj.v) : obj.v[i][1] = key
    THEN obj.v[CHOOSE i \in 1..Len(obj.v) : obj.v[i][1] = key][2]
    ELSE JsUndefined

\* props after `obj[key] = value`: an existing property keeps its place
Assign(props, key, value) ==
    IF \E i \in 1..Len(props) : props[i][1] = key
    THEN [i \in 1..Len(props) |-> IF props[i][1] = key THEN <<key, value>> ELSE props[i]]
    ELSE Append(props, <<key, value>>)

\* { ...props, ...more }
RECURSIVE Spread(_, _)
Spread(props, more) ==
    IF more = <<>> THEN props
    ELSE Spread(Assign(props, more[1][1], more[1][2]), Tail(more))

\* the text of a string between its quotes
RECURSIVE Escaped(_)
Escaped(s) ==
    IF s = <<>> THEN <<>>
    ELSE (IF Head(s) = "\n" THEN <<"\\", "n">>
          ELSE IF Head(s) \in {"\"", "\\"} THEN <<"\\", Head(s)>>
          ELSE <<Head(s)>>) \o Escaped(Tail(s))

Quoted(s) == <<"\"">> \o Escaped(s) \o <<"\"">>

\* JSON.stringify(value), without indentation
RECURSIVE JSONStringify(_)
JSONStringify(value) ==
    IF value.t = "string" THEN Quoted(value.v)
    ELSE IF value.t = "number" THEN value.v
    ELSE IF value.t = "array"
    THEN <<"[">> \o Join([i \in 1..Len(value.v) |-> JSONStringify(value.v[i])], <<",">>) \o <<"]">>
    ELSE <<"{">> \o Join([i \in 1..Len(value.v) |->
                             Quoted(value.v[i][1]) \o <<":">> \o JSONStringify(value.v[i][2])],
                         <<",">>) \o <<"}">>

NoParse == [ok |-> FALSE]
Parsed(value, next) == [ok |-> TRUE, value |-> value, next |-> next]

\* the string whose text starts at i, after the opening quote
RECURSIVE ParseChars(_, _, _)
ParseChars(s, i, acc) ==
    IF i > Len(s) \/ s[i] = "\n" THEN NoParse
    ELSE IF s[i] = "\"" THEN Parsed(Str(acc), i + 1)
    ELSE IF s[i] = "\\"
    THEN IF i + 1 > Len(s) THEN NoParse
         ELSE IF s[i + 1] = "n" THEN ParseChars(s, i + 2, Append(acc, "\n"))
         ELSE IF s[i + 1] \in {"\"", "\\", "/"} THEN ParseChars(s, i + 2, Append(acc, s[i + 1]))
         ELSE NoParse
    ELSE ParseChars(s, i + 1, Append(acc, s[i]))

\* the value that starts at or after i: strings, unsigned integers, arrays and
\* objects
RECURSIVE ParseValue(_, _)
RECURSIVE ParseElements(_, _, _)
RECURSIVE ParseMembers(_, _, _)
ParseValue(s, from) ==
    With(SkipSpace(s, from), LAMBDA i :
        IF i > Len(s) THEN NoParse
        ELSE IF s[i] = "\"" THEN ParseChars(s, i + 1, <<>>)
        ELSE IF Digit(s[i])
        THEN With(ScanDigits(s, i), LAMBDA j :
                 IF s[i] = "0" /\ j > i + 1 THEN NoParse ELSE Parsed(Num(SubSeq(s, i, j - 1)), j))
        ELSE IF s[i] = "["
        THEN With(SkipSpace(s, i + 1), LAMBDA j :
                 IF j <= Len(s) /\ s[j] = "]" THEN Parsed(Arr(<<>>), j + 1)
                 ELSE ParseElements(s, j, <<>>))
        ELSE IF s[i] = "{"
        THEN With(SkipSpace(s, i + 1), LAMBDA j :
                 IF j <= Len(s) /\ s[j] = "}" THEN Parsed(Obj(<<>>), j + 1)
                 ELSE ParseMembers(s, j, <<>>))
        ELSE NoParse)

ParseElements(s, i, acc) ==
    With(ParseValue(s, i), LAMBDA e :
        IF ~e.ok THEN NoParse
        ELSE With(SkipSpace(s, e.next), LAMBDA j :
                 IF j > Len(s) THEN NoParse
                 ELSE IF s[j] = "," THEN ParseElements(s, j + 1, Append(acc, e.value))
                 ELSE IF s[j] = "]" THEN Parsed(Arr(Append(acc, e.value)), j + 1)
                 ELSE NoParse))

ParseMembers(s, i, props) ==
    IF i > Len(s) \/ s[i] # "\"" THEN NoParse
    ELSE With(ParseChars(s, i + 1, <<>>), LAMBDA key :
        IF ~key.ok THEN NoParse
        ELSE With(SkipSpace(s, key.next), LAMBDA c :
            IF c > Len(s) \/ s[c] # ":" THEN NoParse
            ELSE With(ParseValue(s, c + 1), LAMBDA e :
                IF ~e.ok THEN NoParse
                ELSE With(SkipSpace(s, e.next), LAMBDA j :
                    IF j > Len(s) THEN NoParse
                    ELSE IF s[j] = ","
                    THEN ParseMembers(s, SkipSpace(s, j + 1), Assign(props, key.value.v, e.value))
                    ELSE IF s[j] = "}"
                    THEN Parsed(Obj(Assign(props, key.value.v, e.value)), j + 1)
                    ELSE NoParse))))

\* JSON.parse(text): the value, or NoParse for a SyntaxError
JSONParse(text) ==
    With(ParseValue(text, 1), LAMBDA r :
        IF r.ok /\ SkipSpace(text, r.next) > Len(text) THEN r ELSE NoParse)

(***************************************************************************)
(* KnowledgeGraphManager: the graph kept as JSON lines in the memory file  *)
(***************************************************************************)
MaxGraphCalls == 3   \* knowledge-graph tool calls in one run

\* the default memory file, memory.json next to the script
MEMORY_FILE_PATH == Child(ScriptDir, <<"m">>)

TypeKey == <<"t", "y", "p", "e">>
NameKey == <<"n", "a", "m", "e">>
EntityTypeKey == <<"e", "n", "t", "i", "t", "y", "T", "y", "p", "e">>
ObservationsKey == <<"o", "b", "s", "e", "r", "v", "a", "t", "i", "o", "n", "s">>
FromKey == <<"f", "r", "o", "m">>
ToKey == <<"t", "o">>
RelationTypeKey == <<"r", "e", "l", "a", "t", "i", "o", "n", "T", "y", "p", "e">>
WeightKey == <<"w", "e", "i", "g", "h", "t">>

EntityTag == Str(<<"e", "n", "t", "i", "t", "y">>)
RelationTag == Str(<<"r", "e", "l", "a", "t", "i", "o", "n">>)

\* { name, entityType, observations }
Entity(name, entityType, observations) ==
    Obj(<<<<NameKey, Str(name)>>, <<EntityTypeKey, Str(entityType)>>,
          <<ObservationsKey, Arr(Map(observations, Str))>>>>)

\* { from, to, relationType, weight }
Relation(from, to, relationType, weight) ==
    Obj(<<<<FromKey, Str(from)>>, <<ToKey, Str(to)>>, <<RelationTypeKey, Str(relationType)>>,
          <<WeightKey, Num(weight)>>>>)

KnowledgeGraph(entities, relations) == [entities |-> entities, relations |-> relations]

\* line.trim() === ""
IsBlank(line) == \A i \in 1..Len(line) : JsonSpace(line[i])

\* lines.reduce(...): every line is parsed and filed by its type tag
RECURSIVE ReduceLines(_, _)
ReduceLines(lines, graph) ==
    IF lines = <<>> THEN Ok(graph)
    ELSE With(JSONParse(Head(lines)), LAMBDA item :
             IF ~item.ok THEN Err("SyntaxError")
             ELSE With(Prop(item.value, TypeKey), LAMBDA type :
                      ReduceLines(Tail(lines),
                          KnowledgeGraph(
                              IF type = EntityTag THEN Append(graph.entities, item.value)
                              ELSE graph.entities,
                              IF type = RelationTag THEN Append(graph.relations, item.value)
                              ELSE graph.relations))))

loadGraph(f) ==
    With(readFile(f, MEMORY_FILE_PATH), LAMBDA data :
        IF ~data.ok
        THEN IF data.error = "ENOENT" THEN Ok(KnowledgeGraph(<<>>, <<>>)) ELSE data
        ELSE ReduceLines(SelectSeq(Split(data.value, "\n"), LAMBDA line : ~IsBlank(line)),
                         KnowledgeGraph(<<>>, <<>>)))

\* JSON.stringify({ type: tag, ...item })
TaggedLine(tag, item) == JSONStringify(Obj(Spread(<<<<TypeKey, tag>>>>, item.v)))

GraphLines(graph) ==
    [i \in 1..Len(graph.entities) |-> TaggedLine(EntityTag, graph.entities[i])]
    \o [i \in 1..Len(graph.relations) |-> TaggedLine(RelationTag, graph.relations[i])]

\* the filesystem after saveGraph(graph), or the error
saveGraph(f, graph) ==
    With(mkdir(f, dirname(MEMORY_FILE_PATH)), LAMBDA made :
        IF ~made.ok THEN made
        ELSE writeFile(made.value, MEMORY_FILE_PATH, Join(GraphLines(graph), <<"\n">>)))

\* what a manager method leaves: its result or error, the filesystem, and the
\* graph it passed to saveGraph
Returned(outcome, f, saved, graph) ==
    [outcome |-> outcome, f |-> f, saved |-> saved, graph |-> graph]

Thrown(error, f) == Returned(error, f, FALSE, KnowledgeGraph(<<>>, <<>>))

SaveAndReturn(f, graph, value) ==
    With(saveGraph(f, graph), LAMBDA written :
        IF written.ok THEN Returned(Ok(value), written.value, TRUE, graph)
        ELSE Thrown(written, f))

\* seq.some(x => x.name === name)
HasName(entities, name) == \E i \in 1..Len(entities) : Prop(entities[i], NameKey) = name

\* entities.filter(e => !graph.entities.some(existing => existing.name === e.name))
NewEntities(existing, entities) ==
    SelectSeq(entities, LAMBDA e : ~HasName(existing, Prop(e, NameKey)))

createEntities(f, entities) ==
    With(loadGraph(f), LAMBDA graph :
        IF ~graph.ok THEN Thrown(graph, f)
        ELSE With(NewEntities(graph.value.entities, entities), LAMBDA newEntities :
                 SaveAndReturn(f,
                     KnowledgeGraph(graph.value.entities \o newEntities, graph.value.relations),
                     newEntities)))

SameRelation(r, d) ==
    \A key \in {FromKey, ToKey, RelationTypeKey, WeightKey} : Prop(r, key) = Prop(d, key)

createRelations(f, relations) ==
    With(loadGraph(f), LAMBDA graph :
        IF ~graph.ok THEN Thrown(graph, f)
        ELSE With(SelectSeq(relations, LAMBDA r :
                      ~\E i \in 1..Len(graph.value.relations) :
                          SameRelation(graph.value.relations[i], r)),
                  LAMBDA newRelations :
                 SaveAndReturn(f,
                     KnowledgeGraph(graph.value.entities, graph.value.relations \o newRelations),
                     newRelations)))

\* new Error(`Entity with name ${entityName} not found`)
EntityNotFound(entityName) == [message |-> "Entity with name ... not found", name |-> entityName]

\* graph.entities.find(e => e.name === name): the position of the first one
Find(entities, name) ==
    CHOOSE i \in 1..Len(entities) :
        /\ Prop(entities[i], NameKey) = name
        /\ \A j \in 1..(i - 1) : Prop(entities[j], NameKey) # name

WithObservations(entity, observations) == Obj(Assign(entity.v, ObservationsKey, Arr(observations)))

\* observations.map(o => ...): the items are handled in order on the loaded graph,
\* the first item without entity throws
RECURSIVE AddEach(_, _, _)
AddEach(entities, observations, results) ==
    IF observations = <<>> THEN Ok([entities |-> entities, results |-> results])
    ELSE IF ~HasName(entities, Head(observations).entityName)
    THEN Err(EntityNotFound(Head(observations).entityName))
    ELSE With(Find(entities, Head(observations).entityName), LAMBDA k :
         With(Prop(entities[k], ObservationsKey).v, LAMBDA had :
         With(SelectSeq(Head(observations).contents, LAMBDA content : content \notin Range(had)),
              LAMBDA newObservations :
                  AddEach([entities EXCEPT ![k] = WithObservations(@, had \o newObservations)],
                          Tail(observations),
                          Append(results, [entityName |-> Head(observations).entityName,
                                           addedObservations |-> newObservations])))))

\* an implementation that saves what it changed before it throws
addObservations_SavesBeforeThrow(f, observations) ==
    With(loadGraph(f), LAMBDA graph :
        IF ~graph.ok THEN Thrown(graph, f)
        ELSE With(AddEach(graph.value.entities, observations, <<>>), LAMBDA added :
                 IF added.ok
                 THEN SaveAndReturn(f, KnowledgeGraph(added.value.entities, graph.value.relations),
                                    added.value.results)
                 ELSE With(AddEach(graph.value.entities, SubSeq(observations, 1, 1), <<>>),
                           LAMBDA first :
                          IF first.ok
                          THEN Returned(added,
                                        SaveAndReturn(f, KnowledgeGraph(first.value.entities,
                                                                        graph.value.relations),
                                                      <<>>).f,
                                        FALSE, KnowledgeGraph(<<>>, <<>>))
                          ELSE Thrown(added, f))))

addObservations(f, observations) ==
    With(loadGraph(f), LAMBDA graph :
        IF ~graph.ok THEN Thrown(graph, f)
        ELSE With(AddEach(graph.value.entities, observations, <<>>), LAMBDA added :
                 IF ~added.ok THEN Thrown(added, f)
                 ELSE SaveAndReturn(f, KnowledgeGraph(added.value.entities, graph.value.relations),
                                    added.value.results)))

\* an implementation that leaves the relations alone
deleteEntities_KeepsRelations(f, entityNames) ==
    With(loadGraph(f), LAMBDA graph :
        IF ~graph.ok THEN Thrown(graph, f)
        ELSE SaveAndReturn(f,
                 KnowledgeGraph(
                     SelectSeq(graph.value.entities,
                               LAMBDA e : Prop(e, NameKey) \notin Range(entityNames)),
                     graph.value.relations),
                 JsUndefined))

deleteEntities(f, entityNames) ==
    With(loadGraph(f), LAMBDA graph :
        IF ~graph.ok THEN Thrown(graph, f)
        ELSE SaveAndReturn(f,
                 KnowledgeGraph(
                     SelectSeq(graph.value.entities,
                               LAMBDA e : Prop(e, NameKey) \notin Range(entityNames)),
                     SelectSeq(graph.value.relations,
                               LAMBDA r : /\ Prop(r, FromKey) \notin Range(entityNames)
                                          /\ Prop(r, ToKey) \notin Range(entityNames))),
                 JsUndefined))

\* deletions.forEach(d => ...): an item without entity is skipped
RECURSIVE DeleteEach(_, _)
DeleteEach(entities, deletions) ==
    IF deletions = <<>> THEN entities
    ELSE IF ~HasName(entities, Head(deletions).entityName)
    THEN DeleteEach(entities, Tail(deletions))
    ELSE With(Find(entities, Head(deletions).entityName), LAMBDA k :
             DeleteEach([entities EXCEPT ![k] =
                            WithObservations(@, SelectSeq(Prop(@, ObservationsKey).v,
                                LAMBDA o : o \notin Range(Head(deletions).observations)))],
                        Tail(deletions)))

deleteObservations(f, deletions) ==
    With(loadGraph(f), LAMBDA graph :
        IF ~graph.ok THEN Thrown(graph, f)
        ELSE SaveAndReturn(f,
                 KnowledgeGraph(DeleteEach(graph.value.entities, deletions), graph.value.relations),
                 JsUndefined))

deleteRelations(f, relations) ==
    With(loadGraph(f), LAMBDA graph :
        IF ~graph.ok THEN Thrown(graph, f)
        ELSE SaveAndReturn(f,
                 KnowledgeGraph(graph.value.entities,
                     SelectSeq(graph.value.relations, LAMBDA r :
                         ~\E i \in 1..Len(relations) : SameRelation(r, relations[i]))),
                 JsUndefined))

readGraph(f) ==
    With(loadGraph(f), LAMBDA graph :
        IF ~graph.ok THEN Thrown(graph, f) ELSE Returned(graph, f, FALSE, graph.value))

(***************************************************************************)
(* The knowledge-graph tools, one call at a time                           *)
(***************************************************************************)
NameA == <<"a">>
NameB == <<"b">>
NameC == <<"c">>
NameZ == <<"z">>     \* never created
ObsX == <<"x">>
ObsQ == <<"\"", "\n">>

\* an entity whose own properties include one called type
EntityWithOwnType ==
    Obj(Append(Entity(NameC, <<"t">>, <<>>).v, <<TypeKey, RelationTag>>))

\* the lists of entities the clients pass to create_entities
CreateEntityPool ==
    {<<Entity(NameA, <<"t">>, <<ObsX>>)>>,
     <<Entity(NameB, <<"t">>, <<ObsQ>>)>>,
     <<Entity(NameA, <<"u">>, <<>>), Entity(NameA, <<"t">>, <<ObsX>>)>>,
     <<Entity(NameB, <<"t">>, <<ObsQ>>), Entity(NameA, <<"t">>, <<ObsX>>)>>,
     <<EntityWithOwnType>>}

RelationAB == Relation(NameA, NameB, <<"r">>, <<"1">>)
RelationAA == Relation(NameA, NameA, <<"r">>, <<"5">>)

CreateRelationPool == {<<RelationAB>>, <<RelationAA>>, <<RelationAB, RelationAB>>}

DeleteRelationPool == {<<RelationAB>>, <<RelationAA>>}

Observation(entityName, contents) ==
    [entityName |-> Str(entityName), contents |-> Map(contents, Str)]

Deletion(entityName, observations) ==
    [entityName |-> Str(entityName), observations |-> Map(observations, Str)]

AddObservationPool ==
    {<<Observation(NameA, <<ObsX>>)>>,
     <<Observation(NameA, <<ObsQ, ObsQ>>)>>,
     <<Observation(NameA, <<ObsQ>>), Observation(NameZ, <<ObsX>>)>>,
     <<Observation(NameB, <<ObsX>>), Observation(NameA, <<ObsQ>>)>>,
     <<Observation(NameA, <<ObsQ>>), Observation(NameA, <<ObsQ, ObsX>>)>>,
     <<Observation(NameZ, <<ObsX>>)>>}

DeleteObservationPool ==
    {<<Deletion(NameA, <<ObsX>>)>>, <<Deletion(NameZ, <<ObsX>>), Deletion(NameB, <<ObsQ>>)>>}

DeleteEntityPool == {<<Str(NameA)>>, <<Str(NameB), Str(NameC)>>, <<Str(NameZ)>>}

GraphWorld(content) ==
    [q \in {Root, Cwd, ScriptDir, MEMORY_FILE_PATH} |->
        IF q = MEMORY_FILE_PATH THEN File(content) ELSE Dir]

NoMemoryFile == [q \in {Root, Cwd} |-> Dir]

\* the memory file as a script wrote it, followed by `end`
WrittenByScript(end) ==
    Join(<<JSONStringify(Obj(Spread(<<<<TypeKey, EntityTag>>>>,
                                    Entity(NameA, <<"t">>, <<ObsX>>).v))),
           JSONStringify(Obj(Spread(<<<<TypeKey, RelationTag>>>>,
                                    Relation(NameA, NameA, <<"r">>, <<"5">>).v)))>>,
         <<"\n">>) \o end

InitGraph ==
    /\ allowedDirectories = <<>>
    /\ fs \in {NoMemoryFile, GraphWorld(WrittenByScript(<<>>)),
               GraphWorld(WrittenByScript(<<"\n", " ", "\n">>))}
    /\ call = NoCall
    /\ calls = 0
    /\ history = <<>>
    /\ arg = <<>>
    /\ ret = Pending

\* the CallToolRequestSchema handler for the knowledge-graph tools
GraphHandle(tool, args, f) ==
    IF tool = "read_graph" THEN readGraph(f)
    ELSE IF tool = "create_entities" THEN createEntities(f, args)
    ELSE IF tool = "create_relations" THEN createRelations(f, args)
    ELSE IF tool = "add_observations" THEN addObservations(f, args)
    ELSE IF tool = "delete_entities" THEN deleteEntities(f, args)
    ELSE IF tool = "delete_observations" THEN deleteObservations(f, args)
    ELSE deleteRelations(f, args)

GraphCall(tool, args) ==
    /\ calls < MaxGraphCalls
    /\ With(GraphHandle(tool, args, fs), LAMBDA r :
           /\ fs' = r.f
           /\ call' = [tool |-> tool, args |-> args, outcome |-> r.outcome, before |-> fs,
                       saved |-> r.saved, graph |-> r.graph])
    /\ calls' = calls + 1
    /\ UNCHANGED <<allowedDirectories, history, arg, ret>>

ReadGraph == GraphCall("read_graph", <<>>)

CreateEntities ==
    \E entities \in CreateEntityPool :
        GraphCall("create_entities", entities)

CreateRelations ==
    \E relations \in CreateRelationPool :
        GraphCall("create_relations", relations)

AddObservations ==
    \E observations \in AddObservationPool :
        GraphCall("add_observations", observations)

DeleteEntities == \E entityNames \in DeleteEntityPool : GraphCall("delete_entities", entityNames)

DeleteObservations ==
    \E deletions \in DeleteObservationPool : GraphCall("delete_observations", deletions)

DeleteRelations ==
    \E relations \in DeleteRelationPool :
        GraphCall("delete_relations", relations)

NextGraph ==
    \/ ReadGraph
    \/ CreateEntities
    \/ CreateRelations
    \/ AddObservations
    \/ DeleteEntities
    \/ DeleteObservations
    \/ DeleteRelations

SpecGraph == InitGraph /\ [][NextGraph]_vars

GraphTools ==
    {"read_graph", "create_entities", "create_relations", "add_observations", "delete_entities",
     "delete_observations", "delete_relations"}

IsGraphCall == call.tool \in GraphTools

\* the graph the memory file holds
StoredGraph(f) == loadGraph(f).value

Names(entities) == {Prop(entities[i], NameKey) : i \in 1..Len(entities)}

\* item without its type property
Untagged(item) == Obj(SelectSeq(item.v, LAMBDA prop : prop[1] # TypeKey))

\* the entities (or relations) read are the ones written, type tag aside
SameItems(read, written) ==
    /\ Len(read) = Len(written)
    /\ \A i \in 1..Len(read) : Untagged(read[i]) = Untagged(written[i])

\* some stored entity has the name, entityType and observations of e
EntityStored(entities, e) ==
    \E i \in 1..Len(entities) :
        \A key \in {NameKey, EntityTypeKey, ObservationsKey} : Prop(entities[i], key) = Prop(e, key)

\* C22: an entity passed to create_entities under a name the graph did not hold is
\* stored with its entityType and observations; a stored entity is still stored
\* after every call but a delete_entities that names it; read_graph returns the
\* stored graph; and the graph a call saved reads back as the same entities and
\* relations.
C22_CreatedEntityStaysReadable ==
    IsGraphCall =>
        With(StoredGraph(call.before), LAMBDA old :
        With(StoredGraph(fs), LAMBDA new :
            /\ (call.tool = "create_entities" /\ call.outcome.ok)
               => \A e \in Range(call.args) :
                      Prop(e, NameKey) \notin Names(old.entities) => EntityStored(new.entities, e)
            /\ \A name \in Names(old.entities) :
                   (call.tool = "delete_entities" => name \notin Range(call.args))
                   => name \in Names(new.entities)
            /\ call.tool = "read_graph" => call.outcome = Ok(new)
            /\ call.saved => /\ SameItems(new.entities, call.graph.entities)
                             /\ SameItems(new.relations, call.graph.relations)))

\* the same for calls whose entities hold the three declared properties only
C22_DeclaredPropertiesOnly ==
    (IsGraphCall /\ call.tool = "create_entities" => EntityWithOwnType \notin Range(call.args))
    => C22_CreatedEntityStaysReadable

IsDeleteEntities == IsGraphCall /\ call.tool = "delete_entities" /\ call.outcome.ok

\* the relation starts or ends at one of the names
Touches(relation, names) == Prop(relation, FromKey) \in names \/ Prop(relation, ToKey) \in names

\* C23: after delete_entities(names) the stored graph holds no entity whose name
\* is in names and no relation whose from or to is in names, and the other
\* entities and relations are the ones stored before, in their order.
C23_DeleteEntitiesTakesRelations ==
    IsDeleteEntities =>
        With(StoredGraph(call.before), LAMBDA old :
        With(StoredGraph(fs), LAMBDA new :
            /\ \A i \in 1..Len(new.entities) :
                   Prop(new.entities[i], NameKey) \notin Range(call.args)
            /\ \A i \in 1..Len(new.relations) : ~Touches(new.relations[i], Range(call.args))
            /\ new.entities
                   = SelectSeq(old.entities, LAMBDA e : Prop(e, NameKey) \notin Range(call.args))
            /\ new.relations
                   = SelectSeq(old.relations, LAMBDA r : ~Touches(r, Range(call.args)))))

\* an entity went with a relation that ended at it, another entity and its
\* relation stayed
C23_Witness ==
    /\ IsDeleteEntities
    /\ With(StoredGraph(call.before), LAMBDA old :
       With(StoredGraph(fs), LAMBDA new :
           /\ Str(NameB) \in Names(old.entities) /\ Str(NameB) \in Range(call.args)
           /\ \E i \in 1..Len(old.relations) : Prop(old.relations[i], ToKey) = Str(NameB)
           /\ Names(new.entities) = {Str(NameA)}
           /\ Len(new.relations) = 1 /\ Len(old.relations) = 2))

(***************************************************************************)
(* One edit as a pure function of bounded texts                            *)
(***************************************************************************)
MaxContentLen == 4   \* longest working copy
MaxSearchLen == 3    \* longest search text

EditChars == {" ", "a", "\n"}

EditContentPool == SeqsUpTo(EditChars, MaxContentLen)

EditSearchPool == SeqsUpTo(EditChars, MaxSearchLen) \ {<<>>}

EditReplacementPool ==
    {<<>>, <<"b">>, <<" ", " ", "b">>, <<"b", "\n", " ", "c">>, <<" ", "b", "\n", "c", " ">>}

InitFallback ==
    /\ allowedDirectories = <<>>
    /\ fs = NoFs
    /\ call = NoCall
    /\ calls = 0
    /\ history = <<>>
    /\ \E content \in EditContentPool, old \in EditSearchPool, new \in EditReplacementPool :
           arg = [fn |-> "applyEdit", content |-> content, edit |-> Edit(old, new)]
    /\ ret = Pending

ApplyOneEdit ==
    /\ arg.fn = "applyEdit"
    /\ ret = Pending
    /\ ret' = Done(applyEdit(arg.content, arg.edit))
    /\ UNCHANGED <<allowedDirectories, fs, call, calls, history, arg>>

NextFallback == ApplyOneEdit

SpecFallback == InitFallback /\ [][NextFallback]_vars

\* the window of content lines that starts at line i equals the search lines
\* after trimming every line
MatchesAt(contentLines, oldLines, i) ==
    /\ i + Len(oldLines) - 1 <= Len(contentLines)
    /\ \A j \in 1..Len(oldLines) : Trim(oldLines[j]) = Trim(contentLines[i + j - 1])

\* the search text does not occur verbatim, but some window of lines matches it
IsFallback ==
    /\ arg.fn = "applyEdit" /\ RetDone
    /\ \A k \in 1..(Len(arg.content) - Len(arg.edit.oldText) + 1) :
           SubSeq(arg.content, k, k + Len(arg.edit.oldText) - 1) # arg.edit.oldText
    /\ \E i \in 1..Len(Lines(arg.content)) :
           MatchesAt(Lines(arg.content), Lines(arg.edit.oldText), i)

\* the result replaces the window at line i by the replacement lines under the
\* indentation of line i and leaves the other lines alone
ReplacedAt(contentLines, oldLines, newLines, resultLines, i) ==
    /\ Len(resultLines) = Len(contentLines) - Len(oldLines) + Len(newLines)
    /\ \A k \in 1..(i - 1) : resultLines[k] = contentLines[k]
    /\ \A j \in 1..Len(newLines) :
           resultLines[i + j - 1] = Indent(contentLines[i]) \o TrimStart(newLines[j])
    /\ \A k \in (i + Len(oldLines))..Len(contentLines) :
           resultLines[k - Len(oldLines) + Len(newLines)] = contentLines[k]

Editors == {1, 2}

RaceContentPool == {<<"a", "\n", "b">>, <<"a", "\r", "\n", "b">>}

RaceEditPool ==
    {<<Edit(<<"a">>, <<"A">>)>>,
     <<Edit(<<"b">>, <<"B", "\n", "B">>)>>,
     <<Edit(<<"A">>, <<"c">>)>>,
     <<Edit(<<"a">>, <<"A">>), Edit(<<"b">>, <<>>)>>}

\* an edit_file call that has not started
NewEditor(edits) == [phase |-> "validate", edits |-> edits]

InitRace ==
    /\ allowedDirectories = allowedDirs(<<>>)
    /\ \E c \in RaceContentPool : fs = EditorWorld(c)
    /\ \E first \in RaceEditPool, second \in RaceEditPool :
           call = [editors |-> <<NewEditor(first), NewEditor(second)>>]
    /\ calls = 0
    /\ history = <<>>
    /\ arg = [path |-> EditPath]
    /\ ret = Pending

IsRace == "editors" \in DOMAIN call

editors == call.editors

\* the call returns or throws
Finished(editor, outcome) == [phase |-> "done", edits |-> editor.edits, outcome |-> outcome]

\* const validatedPath = await validatePath(args.path)
validateTurn(f, allowed, editor, path) ==
    With(validatePath(f, allowed, path, FALSE), LAMBDA v :
        IF ~v.ok THEN Finished(editor, v)
        ELSE [phase |-> "read", edits |-> editor.edits, validatedPath |-> v.value])

\* applyFileEdits up to its write: the file is read and the edits are applied to
\* the text read
readTurn(f, editor) ==
    With(readFile(f, editor.validatedPath), LAMBDA raw :
        IF ~raw.ok THEN Finished(editor, raw)
        ELSE With(applyEdits(normalizeLineEndings(raw.value), editor.edits), LAMBDA modified :
                 IF ~modified.ok THEN Finished(editor, modified)
                 ELSE [phase |-> "write", edits |-> editor.edits,
                       validatedPath |-> editor.validatedPath, raw |-> raw.value,
                       output |-> restoreLineEndings(modified.value, raw.value),
                       diff |-> createUnifiedDiff(normalizeLineEndings(raw.value),
                                                  modified.value)]))

\* a writer that appends its result to what the file holds
writeTurn_Appends(f, editor) ==
    writeFile(f, editor.validatedPath, ContentAt(f, editor.validatedPath) \o editor.output)

\* applyFileEdits' write of the final content
writeTurn(f, editor) == writeFile(f, editor.validatedPath, editor.output)

ValidateTurn ==
    /\ IsRace
    /\ \E i \in Editors :
           /\ editors[i].phase = "validate"
           /\ call' = [call EXCEPT !.editors[i] =
                          validateTurn(fs, allowedDirectories, @, arg.path)]
    /\ UNCHANGED <<allowedDirectories, fs, calls, history, arg, ret>>

ReadTurn ==
    /\ IsRace
    /\ \E i \in Editors :
           /\ editors[i].phase = "read"
           /\ call' = [call EXCEPT !.editors[i] = readTurn(fs, @)]
    /\ UNCHANGED <<allowedDirectories, fs, calls, history, arg, ret>>

\* the writes made are remembered in `history`, the last one first
WriteTurn ==
    /\ IsRace
    /\ \E i \in Editors :
           /\ editors[i].phase = "write"
           /\ With(writeTurn(fs, editors[i]), LAMBDA w :
                  /\ fs' = IF w.ok THEN w.value ELSE fs
                  /\ call' = [call EXCEPT !.editors[i] =
                                 Finished(@, IF w.ok THEN Ok(@.diff) ELSE w)]
                  /\ history' = IF w.ok THEN <<[editor |-> i, read |-> editors[i].raw,
                                               edits |-> editors[i].edits]>> \o history
                                ELSE history)
    /\ UNCHANGED <<allowedDirectories, calls, arg, ret>>

NextRace == ValidateTurn \/ ReadTurn \/ WriteTurn

SpecRace == InitRace /\ [][NextRace]_vars

\* what a call that read `read` writes: its edits applied to that text
CompleteOutput(read, edits) ==
    restoreLineEndings(applyEdits(normalizeLineEndings(read), edits).value, read)

BothDone == IsRace /\ \A i \in Editors : editors[i].phase = "done"

WithoutValidSession(req, ts) ==
    \/ req.sessionId # NoSessionId /\ req.sessionId \notin DOMAIN ts
    \/ req.sessionId = NoSessionId /\ req.method \in {"GET", "DELETE"}
    \/ req.sessionId = NoSessionId /\ req.method = "POST" /\ ~isInitializeRequest(req.body)

\* C26: a POST with an unknown session id (an initialize request included) or
\* with no session id and another body is answered 400 with JSON-RPC error
\* -32000; a GET or DELETE with a missing or unknown session id is answered 400;
\* no transport is constructed and the session map is unchanged.
C26_RejectedWithoutValidSession ==
    [][WithoutValidSession(arg', transports)
       => /\ ret'.value.status = 400
          /\ arg'.method = "POST" => ret'.value.code = -32000
          /\ call' = call]_vars

\* the same for session ids that name no member of Object.prototype
C26_ExceptInheritedNames ==
    [][(WithoutValidSession(arg', transports) /\ arg'.sessionId \notin ObjectPrototypeKeys)
       => /\ ret'.value.status = 400
          /\ arg'.method = "POST" => ret'.value.code = -32000
          /\ call' = call]_vars

\* the session ids of the transports that have closed
ClosedIds(s) == {s.created[i].sessionId : i \in {k \in 1..Len(s.created) : s.created[k].closed}}

\* C27: a closed transport's id is not in the session map and a request that
\* carries it afterwards is answered 400; every key of the map leads to a
\* transport whose sessionId is that key; a step removes no entry but the one of
\* the session its request names.
C27_SessionTeardown ==
    /\ [](IsHttp => /\ ClosedIds(call) \cap DOMAIN transports = {}
                    /\ \A id \in DOMAIN transports : created[transports[id]].sessionId = id)
    /\ [][/\ arg'.sessionId \in ClosedIds(call) => ret'.value.status = 400
          /\ \A id \in DOMAIN transports \ {arg'.sessionId} :
                 id \in DOMAIN transports' /\ transports'[id] = transports[id]]_vars

\* of two sessions one was closed, a later request with its id was refused, and
\* the other session is still registered
C27_Witness ==
    /\ Answered
    /\ Len(created) = 2
    /\ created[1].closed /\ ~created[2].closed
    /\ arg.sessionId = created[1].sessionId
    /\ ret.value.status = 400
    /\ DOMAIN transports = {created[2].sessionId}
    /\ transports[created[2].sessionId] = 2

\* the call passed entities with the three declared properties only
DeclaredPropertiesOnly ==
    call.tool = "create_entities" => EntityWithOwnType \notin Range(call.args)

\* C28: no two stored entities have the same name, also after a create_entities
\* call that lists a new name twice, and create_entities returns exactly the
\* entities it added to the stored graph (for entities with the declared
\* properties only).
C28_EntityNamesUnique ==
    (IsGraphCall /\ DeclaredPropertiesOnly) =>
        With(StoredGraph(call.before), LAMBDA old :
        With(StoredGraph(fs), LAMBDA new :
            /\ \A i, j \in 1..Len(new.entities) :
                   i # j => Prop(new.entities[i], NameKey) # Prop(new.entities[j], NameKey)
            /\ (call.tool = "create_entities" /\ call.outcome.ok)
               => /\ Len(new.entities) = Len(old.entities) + Len(call.outcome.value)
                  /\ SubSeq(new.entities, 1, Len(old.entities)) = old.entities
                  /\ SameItems(SubSeq(new.entities, Len(old.entities) + 1, Len(new.entities)),
                               call.outcome.value)))

IsAddObservations == IsGraphCall /\ call.tool = "add_observations"

\* the observations of an entity, as a set
ObservationsOf(entity) == Range(Prop(entity, ObservationsKey).v)

\* the contents the call lists for name
Listed(observations, name) ==
    UNION {Range(observations[k].contents) :
               k \in {i \in 1..Len(observations) : observations[i].entityName = name}}

\* the contents the call reports as added to name
ReportedAdded(results, name) ==
    UNION {Range(results[k].addedObservations) :
               k \in {i \in 1..Len(results) : results[i].entityName = name}}

\* C29: an add_observations call with an item whose entity is not in the graph
\* fails with the error that names such an entity and leaves the memory file as it
\* was, also when earlier items named existing entities; otherwise it succeeds,
\* every entity named (the first one of its name) gains exactly the listed
\* contents it did not have and loses none, the other entities are unchanged, and
\* the call returns one result per item that together report those contents.
C29_AddObservationsAllOrNothing ==
    IsAddObservations =>
        With(StoredGraph(call.before), LAMBDA old :
        With(StoredGraph(fs), LAMBDA new :
            IF \E k \in 1..Len(call.args) : call.args[k].entityName \notin Names(old.entities)
            THEN /\ ~call.outcome.ok
                 /\ call.outcome.error.message = "Entity with name ... not found"
                 /\ call.outcome.error.name \in
                        {call.args[k].entityName : k \in 1..Len(call.args)} \ Names(old.entities)
                 /\ fs = call.before
            ELSE /\ call.outcome.ok
                 /\ Len(call.outcome.value) = Len(call.args)
                 /\ \A k \in 1..Len(call.args) :
                        call.outcome.value[k].entityName = call.args[k].entityName
                 /\ new.relations = old.relations
                 /\ Len(new.entities) = Len(old.entities)
                 /\ \A i \in 1..Len(old.entities) :
                        /\ \A key \in {TypeKey, NameKey, EntityTypeKey} :
                               Prop(new.entities[i], key) = Prop(old.entities[i], key)
                        /\ With(Prop(old.entities[i], ObservationsKey).v, LAMBDA had :
                               SubSeq(Prop(new.entities[i], ObservationsKey).v, 1, Len(had)) = had)
                 /\ \A i \in 1..Len(old.entities) :
                        With(Prop(old.entities[i], NameKey), LAMBDA name :
                            IF i = Find(old.entities, name)
                            THEN /\ ObservationsOf(new.entities[i])
                                        = ObservationsOf(old.entities[i])
                                              \cup Listed(call.args, name)
                                 /\ ReportedAdded(call.outcome.value, name)
                                        = Listed(call.args, name)
                                              \ ObservationsOf(old.entities[i])
                            ELSE new.entities[i] = old.entities[i])))

\* a call whose first item named an existing entity and whose second item named
\* a missing one has failed
C29_Witness ==
    /\ IsAddObservations
    /\ Len(call.args) = 2
    /\ call.args[1].entityName \in Names(StoredGraph(call.before).entities)
    /\ call.args[1].contents # <<>>
    /\ \A i \in 1..Len(StoredGraph(call.before).entities) :
           Range(call.args[1].contents) \cap ObservationsOf(StoredGraph(call.before).entities[i])
               = {}
    /\ call.args[2].entityName = Str(NameZ)
    /\ call.outcome = Err(EntityNotFound(Str(NameZ)))

(***************************************************************************)
(* Two create_entities calls in flight at the same time: each call loads   *)
(* the graph, adds its entities in memory, and saves, and the calls take   *)
(* turns at every await                                                    *)
(***************************************************************************)
Mutators == {1, 2}

FirstEntitiesPool ==
    {<<Entity(NameA, <<"t">>, <<ObsX>>)>>,
     <<Entity(NameA, <<"t">>, <<>>), Entity(NameZ, <<"t">>, <<>>)>>}

SecondEntitiesPool ==
    {<<Entity(NameB, <<"t">>, <<ObsQ>>)>>,
     <<Entity(NameB, <<"t">>, <<>>), Entity(NameC, <<"u">>, <<ObsX>>)>>}

\* a create_entities call that has not started
NewMutator(entities) == [phase |-> "load", entities |-> entities]

InitGraphRace ==
    /\ allowedDirectories = <<>>
    /\ fs \in {NoMemoryFile, GraphWorld(<<>>),
               GraphWorld(JSONStringify(Obj(Spread(<<<<TypeKey, EntityTag>>>>,
                                                   Entity(NameZ, <<"t">>, <<>>).v))))}
    /\ \E first \in FirstEntitiesPool, second \in SecondEntitiesPool :
           call = [mutators |-> <<NewMutator(first), NewMutator(second)>>]
    /\ calls = 0
    /\ history = <<>>
    /\ arg = <<>>
    /\ ret = Pending

IsGraphRace == "mutators" \in DOMAIN call

mutators == call.mutators

Settled(mutator, outcome) ==
    [phase |-> "done", entities |-> mutator.entities, outcome |-> outcome]

\* createEntities up to its save: const graph = await this.loadGraph(), then the
\* new entities are pushed onto the loaded graph
loadTurn(f, mutator) ==
    With(loadGraph(f), LAMBDA graph :
        IF ~graph.ok THEN Settled(mutator, graph)
        ELSE With(NewEntities(graph.value.entities, mutator.entities), LAMBDA newEntities :
                 [phase |-> "mkdir", entities |-> mutator.entities,
                  graph |-> KnowledgeGraph(graph.value.entities \o newEntities,
                                           graph.value.relations),
                  newEntities |-> newEntities]))

\* saveGraph: await fs.mkdir(memoryDir, { recursive: true })
mkdirTurn(f) == mkdir(f, dirname(MEMORY_FILE_PATH))

\* saveGraph: await fs.writeFile(MEMORY_FILE_PATH, lines.join("\n"))
writeFileTurn(f, mutator) ==
    writeFile(f, MEMORY_FILE_PATH, Join(GraphLines(mutator.graph), <<"\n">>))

LoadTurn ==
    /\ IsGraphRace
    /\ \E i \in Mutators :
           /\ mutators[i].phase = "load"
           /\ call' = [call EXCEPT !.mutators[i] = loadTurn(fs, @)]
    /\ UNCHANGED <<allowedDirectories, fs, calls, history, arg, ret>>

MkdirTurn ==
    /\ IsGraphRace
    /\ \E i \in Mutators :
           /\ mutators[i].phase = "mkdir"
           /\ With(mkdirTurn(fs), LAMBDA made :
                  /\ fs' = IF made.ok THEN made.value ELSE fs
                  /\ call' = [call EXCEPT !.mutators[i] =
                                 IF made.ok THEN [@ EXCEPT !.phase = "writeFile"]
                                 ELSE Settled(@, made)])
    /\ UNCHANGED <<allowedDirectories, calls, history, arg, ret>>

WriteFileTurn ==
    /\ IsGraphRace
    /\ \E i \in Mutators :
           /\ mutators[i].phase = "writeFile"
           /\ With(writeFileTurn(fs, mutators[i]), LAMBDA written :
                  /\ fs' = IF written.ok THEN written.value ELSE fs
                  /\ call' = [call EXCEPT !.mutators[i] =
                                 Settled(@, IF written.ok THEN Ok(@.newEntities) ELSE written)])
    /\ UNCHANGED <<allowedDirectories, calls, history, arg, ret>>

NextGraphRace == LoadTurn \/ MkdirTurn \/ WriteFileTurn

SpecGraphRace == InitGraphRace /\ [][NextGraphRace]_vars

BothSettled == IsGraphRace /\ \A i \in Mutators : mutators[i].phase = "done"

\* C30: after two create_entities calls that were in flight together have both
\* returned, the stored graph holds the entities of both calls, whatever the
\* order of their load and save steps.
C30_BothMutationsStored ==
    BothSettled =>
        \A i \in Mutators :
            /\ mutators[i].outcome.ok
            /\ \A e \in Range(mutators[i].entities) :
                   Prop(e, NameKey) \in Names(StoredGraph(fs).entities)

====
